---- MODULE Spec2Model ----
(***************************************************************************)
(* A model of the configuration synchronization engine of CyberRadioDriver *)
(* (CyberRadioDriver/components.py): the value transform applied to        *)
(* frequencies and attenuations, and the query/set handlers of the         *)
(* hardware component classes.                                             *)
(***************************************************************************)
EXTENDS Integers, Sequences, FiniteSets, TLC

VARIABLES
    adj,            \* one evaluation of adjustFrequency / adjustAttenuation
    self,           \* class attributes of the component object under study
    configuration,  \* self.configuration: the mirrored configuration map
    cmdErrorInfo,   \* self.cmdErrorInfo: the diagnostic list
    toneGenDict,    \* a transmitter's tone generators: index -> child state
    transport,      \* self.transport, and each tone generator's
    callback,       \* self.callback, and each tone generator's
    last,           \* what the most recent public call did
    race            \* two callers inside setConfiguration at once, and the radio

vars == <<adj, self, configuration, cmdErrorInfo, toneGenDict, transport, callback, last,
          race>>

(***************************************************************************)
(* Numbers.  The program computes on Python floats; the model keeps them   *)
(* as exact decimal fixed-point numbers with six fractional digits, held   *)
(* in two limbs so that frequencies in Hz (up to 8e9) fit:                 *)
(*     value = (hi * 10^8 + lo) * 10^-6,   0 <= lo < 10^8.                 *)
(***************************************************************************)
Pow10Table ==
    <<1, 10, 100, 1000, 10000, 100000, 1000000, 10000000, 100000000, 1000000000>>

Pow10(k) == Pow10Table[k + 1]

LIMB == Pow10(8)

FRAC == Pow10(6)

\* The number hi * 10^8 + lo (in 10^-6 units), lo of either sign, made canonical.
Num(hi, lo) == [tag |-> "num", hi |-> hi + (lo \div LIMB), lo |-> lo % LIMB]

\* The integer n.
I(n) == Num(n \div 100, (n % 100) * FRAC)

\* mhz * 10^6 + hz, for frequencies written in Hz.
Hz(mhz, hz) == Num(mhz * 10000 + (hz \div 100), (hz % 100) * FRAC)

\* whole + thousandths / 1000.
Dec(whole, thousandths) == Num(whole \div 100, (whole % 100) * FRAC + thousandths * 1000)

IsNum(v) == v.tag = "num"

NumLT(a, b) == a.hi < b.hi \/ (a.hi = b.hi /\ a.lo < b.lo)

NumLE(a, b) == a = b \/ NumLT(a, b)

NumAdd(a, b) == Num(a.hi + b.hi, a.lo + b.lo)

NumNeg(a) == Num(-a.hi, -a.lo)

NumSub(a, b) == NumAdd(a, NumNeg(b))

NumAbs(a) == IF a.hi < 0 THEN NumNeg(a) ELSE a

\* k * a for a small integer k.
NumMulInt(k, a) == Num(k * a.hi, k * a.lo)

\* a * 10^k, 0 <= k <= 8.
NumShl(a, k) ==
    Num(a.hi * Pow10(k) + (a.lo \div Pow10(8 - k)), (a.lo % Pow10(8 - k)) * Pow10(k))

\* a / 10^k, 0 <= k <= 8, kept to six fractional digits.
NumShr(a, k) ==
    Num(a.hi \div Pow10(k), (a.hi % Pow10(k)) * Pow10(8 - k) + (a.lo \div Pow10(k)))

\* 10^k as a number, -6 <= k <= 10.
Pow10Num(k) == IF k <= 2 THEN Num(0, Pow10(k + 6)) ELSE Num(Pow10(k - 2), 0)

\* The exponent of a unit divisor: the program's units are powers of ten.
UnitExp(u) == CHOOSE k \in 0..8 : Pow10Num(k) = u

\* x / units and x * units (Python's /= and *).
NumDiv(x, units) == NumShr(x, UnitExp(units))

NumMul(x, units) == NumShl(x, UnitExp(units))

(***************************************************************************)
(* numpy.log10 and numpy.around, as adjustFrequency uses them.             *)
(***************************************************************************)
\* int(numpy.log10(1.0/res)) for res > 0: the logarithm truncated toward zero.
IntLog10Inv(res) ==
    IF NumLE(I(1), res)
    THEN -(CHOOSE k \in 0..10 :
              /\ NumLE(Pow10Num(k), res)
              /\ (k = 10 \/ NumLT(res, Pow10Num(k + 1))))
    ELSE CHOOSE k \in 0..6 :
              /\ NumLE(res, Pow10Num(-k))
              /\ (k = 6 \/ NumLT(Pow10Num(-(k + 1)), res))

\* Whether x, a multiple of 10^j (in 10^-6 units), is an even multiple of it.
EvenMultiple(x, j) ==
    IF j < 8 THEN (x.lo \div Pow10(j)) % 2 = 0
    ELSE (x.hi \div Pow10(j - 8)) % 2 = 0

\* x rounded down to a multiple of 10^j (in 10^-6 units), and what was cut off.
FloorTo(x, j) ==
    IF j <= 8 THEN Num(x.hi, x.lo - (x.lo % Pow10(j)))
    ELSE Num(x.hi - (x.hi % Pow10(j - 8)), 0)

\* numpy.around's tie rule: rint rounds half to even.
RoundUp_HalfEven(x, j) ==
    LET base == FloorTo(x, j)
        twice == NumMulInt(2, NumSub(x, base))
        q == Pow10Num(j - 6)
    IN  NumLT(q, twice) \/ (twice = q /\ ~EvenMultiple(base, j))

RoundUp_HalfAwayFromZero(x, j) ==
    LET base == FloorTo(x, j)
        twice == NumMulInt(2, NumSub(x, base))
        q == Pow10Num(j - 6)
    IN  NumLT(q, twice) \/ (twice = q /\ x.hi >= 0)

RoundUp(x, j) == RoundUp_HalfEven(x, j)

\* numpy.around(x, decimals): the nearest multiple of 10^-decimals.
around(x, decimals) ==
    LET j == 6 - decimals
    IN  IF j <= 0 THEN x
        ELSE IF RoundUp(x, j) THEN NumAdd(FloorTo(x, j), Pow10Num(j - 6))
        ELSE FloorTo(x, j)

Raised == [tag |-> "raised", hi |-> 0, lo |-> 0]

adjustFrequency_NoClamp(frqIn, frange, res, units) ==
    IF ~NumLT(I(0), res) THEN Raised
    ELSE NumDiv(around(frqIn, IntLog10Inv(res)), units)

\* def adjustFrequency(frqIn, frange, res, units)
adjustFrequency(frqIn, frange, res, units) ==
    IF ~NumLT(I(0), res) THEN Raised   \* 1.0/res or int(nan) raises
    ELSE
    LET frqOut1 == IF NumLT(frqIn, frange[1]) THEN frange[1] ELSE frqIn
        frqOut2 == IF NumLT(frange[2], frqIn) THEN frange[2] ELSE frqOut1
        frqOut3 == around(frqOut2, IntLog10Inv(res))
    IN  NumDiv(frqOut3, units)

adjustAttenuation_NoClamp(attIn, attRange, attRes, attUnits) ==
    IF ~NumLT(I(0), attRes) THEN Raised
    ELSE NumDiv(around(attIn, IntLog10Inv(attRes)), attUnits)

\* def adjustAttenuation(attIn, attRange, attRes, attUnits=1)
adjustAttenuation(attIn, attRange, attRes, attUnits) ==
    IF ~NumLT(I(0), attRes) THEN Raised
    ELSE
    LET attOut1 == IF NumLT(attIn, attRange[1]) THEN attRange[1] ELSE attIn
        attOut2 == IF NumLT(attRange[2], attOut1) THEN attRange[2] ELSE attOut1
        attOut3 == around(attOut2, IntLog10Inv(attRes))
    IN  NumDiv(attOut3, attUnits)

(***************************************************************************)
(* The value transform on its own: one evaluation of adjustFrequency or    *)
(* adjustAttenuation on inputs drawn from a grid of quarter resolutions.   *)
(***************************************************************************)
\* Inputs and range bounds run over k * (res/4), |k| <= MaxQ.
MaxQ == 12

\* A transform table entry: the resolution (four quarters) and the unit divisor.
TSpec(quarter, units) == [res |-> NumMulInt(4, quarter), units |-> units, quarter |-> quarter]

\* Resolutions that are powers of ten, as every table of the program has.
DecimalSpecs ==
    { TSpec(Dec(0, 25), I(1)),        \* 0.1 (the DUC's attRes), units 1
      TSpec(Dec(0, 250), I(1)),       \* 1.0 (attRes, the DDC's frqRes)
      TSpec(Dec(2, 500), I(1)),       \* 10
      TSpec(Dec(2, 500), I(10)),      \* 10, in units of 10
      TSpec(Hz(0, 250000), Hz(1, 0)) }\* 1e6, in units of 1e6 (the tuner's)

\* Resolutions that are no power of ten.
OtherSpecs ==
    { TSpec(Dec(0, 625), I(1)),       \* 2.5
      TSpec(Dec(1, 250), I(1)),       \* 5
      TSpec(Dec(5, 0), I(10)),        \* 20, in units of 10
      TSpec(Dec(0, 125), I(1)) }      \* 0.5

\* A zero and a negative resolution.
BadSpecs ==
    { [res |-> I(0), units |-> I(1), quarter |-> Dec(0, 250)],
      [res |-> I(-1), units |-> I(1), quarter |-> Dec(0, 250)] }

TransformSpecs == DecimalSpecs \cup OtherSpecs \cup BadSpecs

\* Range bounds in quarters: multiples of the resolution, and not.
RangeSteps == { <<-8, 8>>, <<0, 12>>, <<-6, 6>>, <<1, 9>>, <<-4, 7>> }

AdjIdle ==
    [pc |-> "idle", fn |-> "none", k |-> 0, steps |-> <<0, 0>>,
     spec |-> TSpec(Dec(0, 250), I(1)), out |-> I(0)]

AdjIn(a) == NumMulInt(a.k, a.spec.quarter)

AdjRange(a) == << NumMulInt(a.steps[1], a.spec.quarter),
                  NumMulInt(a.steps[2], a.spec.quarter) >>

AdjInit ==
    adj \in { [pc |-> "in", fn |-> f, k |-> k, steps |-> st, spec |-> ts, out |-> I(0)] :
                f \in {"adjustFrequency", "adjustAttenuation"},
                k \in (-MaxQ)..MaxQ, st \in RangeSteps, ts \in TransformSpecs }

CallAdjustFrequency ==
    /\ adj.pc = "in" /\ adj.fn = "adjustFrequency"
    /\ adj' = [adj EXCEPT !.pc = "done",
                  !.out = adjustFrequency(AdjIn(adj), AdjRange(adj), adj.spec.res, adj.spec.units)]
    /\ UNCHANGED <<self, configuration, cmdErrorInfo, toneGenDict, transport, callback, last,
                 race>>

CallAdjustAttenuation ==
    /\ adj.pc = "in" /\ adj.fn = "adjustAttenuation"
    /\ adj' = [adj EXCEPT !.pc = "done",
                  !.out = adjustAttenuation(AdjIn(adj), AdjRange(adj), adj.spec.res, adj.spec.units)]
    /\ UNCHANGED <<self, configuration, cmdErrorInfo, toneGenDict, transport, callback, last,
                 race>>

(***************************************************************************)
(* Configuration maps.  A Python dict is a function on the set of its      *)
(* keys; a missing key is outside the DOMAIN.  None is a value.            *)
(***************************************************************************)
None == [tag |-> "none", hi |-> 0, lo |-> 0]

EmptyDict == [k \in {} |-> None]

\* d[key] = value
Put(d, key, value) == [k \in DOMAIN d \cup {key} |-> IF k = key THEN value ELSE d[k]]

\* d.get(key, default)
Get(d, key, default) == IF key \in DOMAIN d THEN d[key] ELSE default

\* The entries of d whose keys are in keys.
Restrict(d, keys) == [k \in DOMAIN d \cap keys |-> d[k]]

\* Every dict on at most n of the keys, each value drawn from values[key].
Dicts(keys, values, n) ==
    UNION { { d \in [S -> UNION { values[k] : k \in S }] : \A k \in S : d[k] \in values[k] } :
            S \in { T \in SUBSET keys : Cardinality(T) <= n } }

(***************************************************************************)
(* Command objects (module command, an external collaborator).  A command  *)
(* is built from keyword arguments, sent once over the transport, and then *)
(* exposes its outcome, its attributes and (a query) its response fields.  *)
(***************************************************************************)
\* The hardware acknowledges a value it was sent as sent, unless the value is
\* beyond what it can do: then it acknowledges its limit.
HwMax ==
    [TUNER_FREQUENCY |-> I(2900), TUNER_ATTENUATION |-> I(25),
     TX_FREQUENCY |-> I(5900), TX_ATTENUATION |-> I(8),
     DDC_RATE_INDEX |-> I(1), DUC_RATE_INDEX |-> I(1), CW_AMPLITUDE |-> I(1)]

HwAck(key, v) ==
    IF key \in DOMAIN HwMax /\ IsNum(v) /\ NumLT(HwMax[key], v)
    THEN HwMax[key] ELSE v

\* A command before cmd.send(): no outcome yet.
NewCmd(name, query, args) ==
    [name |-> name, query |-> query, args |-> args, sent |-> FALSE, ok |-> FALSE,
     attr |-> args, rspInfo |-> None]

\* cmd.send(self.callback): the round-trip of the n-th invocation of a call.
\* io.fail holds the set-mode invocations whose round-trip fails, io.rsp what
\* the hardware reports to each query command (nothing usable to a command
\* that is left out: that query fails).
Send(cmd, n, io) ==
    LET ok == IF cmd.query THEN cmd.name \in DOMAIN io.rsp ELSE n \notin io.fail
    IN  [cmd EXCEPT !.sent = TRUE, !.ok = ok,
             !.attr = IF ok /\ ~cmd.query
                      THEN [k \in DOMAIN cmd.args |-> HwAck(k, cmd.args[k])]
                      ELSE cmd.args,
             !.rspInfo = IF ok /\ cmd.query THEN io.rsp[cmd.name] ELSE None]

\* getattr(cmd, key)
GetAttr(cmd, key) == Get(cmd.attr, key, None)

\* What a wire log entry keeps of a command.
Sent(cmd) == [name |-> cmd.name, query |-> cmd.query, args |-> cmd.args, ok |-> cmd.ok]

(***************************************************************************)
(* configKeys.Configurable: the base of every component.  A call context   *)
(* carries the object's fields through one handler.                        *)
(***************************************************************************)
Ctx(conf, errs, tgd, log) ==
    [ret |-> TRUE, raised |-> FALSE, configuration |-> conf, cmdErrorInfo |-> errs,
     toneGenDict |-> tgd, log |-> log, index |-> 0]

\* self._addLastCommandErrorInfo(cmd): the command's outcome, as it is when
\* the method is called, joins the diagnostic list.
addLastCommandErrorInfo(c, cmd) ==
    [c EXCEPT !.cmdErrorInfo =
        Append(@, [name |-> cmd.name, sent |-> cmd.sent, ok |-> cmd.ok, index |-> c.index])]

\* self._dictUpdate(destDict, srcDict, backupDict, keys): each key of keys
\* from srcDict if it is there, else from backupDict if it is there.
dictUpdate(destDict, srcDict, backupDict, keys) ==
    [k \in DOMAIN destDict \cup (keys \cap (DOMAIN srcDict \cup DOMAIN backupDict)) |->
        IF k \in keys /\ k \in DOMAIN srcDict THEN srcDict[k]
        ELSE IF k \in keys /\ k \in DOMAIN backupDict THEN backupDict[k]
        ELSE destDict[k]]

\* What is on the wire and in ret once cmd has made its round-trip:
\*   ret &= cmd.send(self.callback); ret &= cmd.success
\* (a query's outcome does not enter ret).  The context, and the command.
AfterSend(c, cmd) ==
    [cmd |-> cmd,
     c |-> [c EXCEPT !.log = Append(@, [index |-> c.index] @@ Sent(cmd)),
                     !.ret = IF cmd.query THEN @ ELSE (@ /\ cmd.ok)]]

\* cmd = Cmd(**args); ret &= cmd.send(self.callback); ret &= cmd.success
Issue(c, name, query, args, io) ==
    AfterSend(c, Send(NewCmd(name, query, args), Len(c.log) + 1, io))

\* self._addLastCommandErrorInfo(cmd), for the command just issued.
AddErrorInfo(i) == [cmd |-> i.cmd, c |-> addLastCommandErrorInfo(i.c, i.cmd)]

\* The mirror step without its guard: the mirrored entries take the command's
\* attributes whatever ret is.
MirrorAttrs_Unguarded(i, keys) ==
    [i.c EXCEPT !.configuration =
        [k \in DOMAIN @ \cup keys |-> IF k \in keys THEN GetAttr(i.cmd, k) ELSE @[k]]]

\* if ret: for key in keys: self.configuration[key] = getattr(cmd, key)
MirrorAttrs(i, keys) ==
    IF i.c.ret
    THEN [i.c EXCEPT !.configuration =
             [k \in DOMAIN @ \cup keys |-> IF k \in keys THEN GetAttr(i.cmd, k) ELSE @[k]]]
    ELSE i.c

\* if ret: for key in keys: self.configuration[key] = value
MirrorValue(i, keys, value) ==
    IF i.c.ret
    THEN [i.c EXCEPT !.configuration =
             [k \in DOMAIN @ \cup keys |-> IF k \in keys THEN value ELSE @[k]]]
    ELSE i.c

\* rspInfo = cmd.getResponseInfo()
\* if rspInfo is not None:
\*     for key in keys: self.configuration[key] = rspInfo.get(key, default)
MirrorRsp(q, keys, default) ==
    IF q.cmd.rspInfo # None
    THEN [q.c EXCEPT !.configuration =
             [k \in DOMAIN @ \cup keys |->
                 IF k \in keys THEN Get(q.cmd.rspInfo, k, default) ELSE @[k]]]
    ELSE q.c

\* None if freq is None else freq * units
ToAppUnits(freq, units) == IF freq = None THEN None ELSE NumMul(freq, units)

\* rspInfo = cmd.getResponseInfo()
\* if rspInfo is not None:
\*     freq = rspInfo.get(key, None)
\*     self.configuration[key] = None if freq is None else freq * units
MirrorRspFrequency(q, key, units) ==
    IF q.cmd.rspInfo # None
    THEN [q.c EXCEPT !.configuration =
             Put(@, key, ToAppUnits(Get(q.cmd.rspInfo, key, None), units))]
    ELSE q.c

\* The recurring set block for a wiring that covers one key:
\*   cmd = Cmd(key: value); ret &= cmd.send(); ret &= cmd.success
\*   self._addLastCommandErrorInfo(cmd)
\*   if ret: self.configuration[key] = getattr(cmd, key)
SetKey(c, name, key, value, io) ==
    MirrorAttrs(AddErrorInfo(Issue(c, name, FALSE, [k \in {key} |-> value], io)), {key})

QueryCmd_UnlessFailed(c, name, io) ==
    IF \E i \in DOMAIN c.log : ~c.log[i].ok
    THEN [cmd |-> NewCmd(name, TRUE, EmptyDict), c |-> c]
    ELSE AddErrorInfo(Issue(c, name, TRUE, EmptyDict, io))

\* The recurring query block for a wiring:
\*   cmd = Cmd(query=True); cmd.send(); self._addLastCommandErrorInfo(cmd)
QueryCmd(c, name, io) == AddErrorInfo(Issue(c, name, TRUE, EmptyDict, io))

\* A query wiring writing each of keys from the response, None where the
\* response lacks the field.
QueryKeys(c, slf, name, keys, io) ==
    IF name \in slf.cmds THEN MirrorRsp(QueryCmd(c, name, io), keys, None) ELSE c

\* A query wiring writing a frequency, taken back to application units.
QueryFrequency(c, slf, name, key, units, io) ==
    IF name \in slf.cmds THEN MirrorRspFrequency(QueryCmd(c, name, io), key, units) ELSE c

\* The recurring set block for a wiring that covers several keys:
\*   cDict = {}; self._dictUpdate(cDict, confDict, self.configuration, keys)
\*   cmd = Cmd(**cDict); ret &= cmd.send(); ret &= cmd.success
\*   self._addLastCommandErrorInfo(cmd)
\*   if ret: for key in keys: self.configuration[key] = getattr(cmd, key)
SetKeys_NoMerge(c, name, keys, confDict, io) ==
    MirrorAttrs(AddErrorInfo(Issue(c, name, FALSE,
                    dictUpdate(EmptyDict, confDict, EmptyDict, keys), io)), keys)

SetKeys(c, name, keys, confDict, io) ==
    MirrorAttrs(AddErrorInfo(Issue(c, name, FALSE,
                    dictUpdate(EmptyDict, confDict, c.configuration, keys), io)), keys)

\* The block above under its guard: the request names one of keys and the
\* wiring is there.
SetKeysIfAny(c, slf, name, keys, confDict, io) ==
    IF DOMAIN confDict \cap keys # {} /\ name \in slf.cmds /\ ~c.raised
    THEN SetKeys(c, name, keys, confDict, io)
    ELSE c

\* The recurring set block for a frequency or attenuation: the value goes
\* through the value transform, and on success the mirrored entry of each of
\* mirrorKeys takes the transformed value, back in application units.
SetAdjusted(c, name, key, adjusted, units, mirrorKeys, io) ==
    IF adjusted = Raised THEN [c EXCEPT !.raised = TRUE]
    ELSE MirrorValue(AddErrorInfo(Issue(c, name, FALSE, [k \in {key} |-> adjusted], io)),
                     mirrorKeys, NumMul(adjusted, units))

(***************************************************************************)
(* class _tuner(_base)                                                     *)
(***************************************************************************)
tuner_frqRange == << Hz(20, 0), Hz(3000, 0) >>

tuner_frqRes == Hz(1, 0)

tuner_frqUnits == Hz(1, 0)

tuner_attRange == << I(0), I(30) >>

tuner_attRes == I(1)

\* self.frqRes: the class attribute, unless a derived class overrides it.
frqRes(slf) == IF "frqRes" \in DOMAIN slf THEN slf.frqRes ELSE tuner_frqRes

tuner_validConfigurationKeywords ==
    {"TUNER_FREQUENCY", "TUNER_ATTENUATION", "TUNER_RF_ATTENUATION", "ENABLE"}

\* One query wiring of the tuner writing one key with a default.
tuner_queryKey(c, slf, name, key, default, io) ==
    IF name \in slf.cmds THEN MirrorRsp(QueryCmd(c, name, io), {key}, default) ELSE c

\* att = rspInfo.get(TUNER_ATTENUATION, None), written under both keys.
tuner_mirrorAttenuation(q) ==
    IF q.cmd.rspInfo # None
    THEN [q.c EXCEPT !.configuration =
             Put(Put(@, "TUNER_ATTENUATION", Get(q.cmd.rspInfo, "TUNER_ATTENUATION", None)),
                 "TUNER_RF_ATTENUATION", Get(q.cmd.rspInfo, "TUNER_ATTENUATION", None))]
    ELSE q.c

\* The tuner's attenuation query.
tuner_queryAttenuation(c, slf, io) ==
    IF "attCmd" \in slf.cmds THEN tuner_mirrorAttenuation(QueryCmd(c, "attCmd", io)) ELSE c

\* _tuner._queryConfiguration(self)
tuner_queryConfiguration(c0, slf, io) ==
    LET c1 == tuner_queryKey(c0, slf, "tpwrCmd", "ENABLE", I(0), io)
        c2 == QueryFrequency(c1, slf, "frqCmd", "TUNER_FREQUENCY", tuner_frqUnits, io)
        c3 == tuner_queryAttenuation(c2, slf, io)
        c4 == tuner_queryKey(c3, slf, "agpCmd", "TUNER_AGP", None, io)
        c5 == tuner_queryKey(c4, slf, "fifCmd", "TUNER_FILTER", None, io)
        c6 == tuner_queryKey(c5, slf, "tadjCmd", "TUNER_TIMING_ADJ", None, io)
    IN  c6

\* The set block without its `if self.xxxCmd is not None:` guard.
tuner_setKey_AlwaysWired(c, slf, confDict, name, key, io) ==
    IF key \in DOMAIN confDict /\ ~c.raised
    THEN SetKey(c, name, key, Get(confDict, key, I(0)), io)
    ELSE c

\* One set wiring of the tuner covering one key, sent as requested.
tuner_setKey(c, slf, confDict, name, key, io) ==
    IF key \in DOMAIN confDict /\ name \in slf.cmds /\ ~c.raised
    THEN SetKey(c, name, key, Get(confDict, key, I(0)), io)
    ELSE c

tuner_setFrequency_Relative(c, slf, confDict, io) ==
    IF "TUNER_FREQUENCY" \in DOMAIN confDict /\ "frqCmd" \in slf.cmds /\ ~c.raised
    THEN SetAdjusted(c, "frqCmd", "TUNER_FREQUENCY",
             adjustFrequency(NumAdd(Get(confDict, "TUNER_FREQUENCY", I(0)),
                                    Get(c.configuration, "TUNER_FREQUENCY", I(0))),
                             tuner_frqRange, tuner_frqRes, tuner_frqUnits),
             tuner_frqUnits, {"TUNER_FREQUENCY"}, io)
    ELSE c

\* The tuner's frequency block (lines 333-348).
tuner_setFrequency(c, slf, confDict, io) ==
    IF "TUNER_FREQUENCY" \in DOMAIN confDict /\ "frqCmd" \in slf.cmds /\ ~c.raised
    THEN SetAdjusted(c, "frqCmd", "TUNER_FREQUENCY",
             adjustFrequency(Get(confDict, "TUNER_FREQUENCY", I(0)),
                             tuner_frqRange, frqRes(slf), tuner_frqUnits),
             tuner_frqUnits, {"TUNER_FREQUENCY"}, io)
    ELSE c

\* The attenuation block taking the attenuation key before the
\* RF-attenuation key.
tuner_setAttenuation_AttenuationFirst(c, slf, confDict, io) ==
    IF /\ ("TUNER_ATTENUATION" \in DOMAIN confDict \/ "TUNER_RF_ATTENUATION" \in DOMAIN confDict)
       /\ "attCmd" \in slf.cmds /\ ~c.raised
    THEN SetAdjusted(c, "attCmd", "TUNER_ATTENUATION",
             adjustAttenuation(Get(confDict, "TUNER_ATTENUATION",
                                   Get(confDict, "TUNER_RF_ATTENUATION", I(0))),
                               tuner_attRange, tuner_attRes, I(1)),
             I(1), {"TUNER_ATTENUATION", "TUNER_RF_ATTENUATION"}, io)
    ELSE c

\* The tuner's attenuation block (lines 349-366).
tuner_setAttenuation(c, slf, confDict, io) ==
    IF /\ ("TUNER_ATTENUATION" \in DOMAIN confDict \/ "TUNER_RF_ATTENUATION" \in DOMAIN confDict)
       /\ "attCmd" \in slf.cmds /\ ~c.raised
    THEN SetAdjusted(c, "attCmd", "TUNER_ATTENUATION",
             adjustAttenuation(Get(confDict, "TUNER_RF_ATTENUATION",
                                   Get(confDict, "TUNER_ATTENUATION", I(0))),
                               tuner_attRange, tuner_attRes, I(1)),
             I(1), {"TUNER_ATTENUATION", "TUNER_RF_ATTENUATION"}, io)
    ELSE c

\* _tuner._setConfiguration(self, confDict)
tuner_setConfiguration(c0, slf, confDict, io) ==
    LET c1 == tuner_setKey(c0, slf, confDict, "tpwrCmd", "ENABLE", io)
        c2 == tuner_setFrequency(c1, slf, confDict, io)
        c3 == tuner_setAttenuation(c2, slf, confDict, io)
        c4 == tuner_setKey(c3, slf, confDict, "agpCmd", "TUNER_AGP", io)
        c5 == tuner_setKey(c4, slf, confDict, "fifCmd", "TUNER_FILTER", io)
        c6 == tuner_setKey(c5, slf, confDict, "tadjCmd", "TUNER_TIMING_ADJ", io)
    IN  c6

(***************************************************************************)
(* class _ddc(_base), class _wbddc(_ddc)                                   *)
(***************************************************************************)
ddc_frqRange == << I(0), I(0) >>

ddc_frqRes == I(1)

ddc_frqUnits == I(1)

ddc_validConfigurationKeywords ==
    {"ENABLE", "DDC_RATE_INDEX", "DDC_UDP_DESTINATION", "DDC_VITA_ENABLE", "DDC_STREAM_ID"}

\* The keys the configuration command covers.
ddc_cfgKeys ==
    {"ENABLE", "DDC_RATE_INDEX", "DDC_UDP_DESTINATION", "DDC_VITA_ENABLE", "DDC_STREAM_ID"}

\* _ddc._queryConfiguration(self)
ddc_queryConfiguration(c0, slf, io) ==
    LET c1 == QueryFrequency(c0, slf, "frqCmd", "DDC_FREQUENCY_OFFSET", ddc_frqUnits, io)
        c2 == QueryKeys(c1, slf, "cfgCmd", ddc_cfgKeys, io)
        c3 == QueryKeys(c2, slf, "dportCmd", {"DDC_DATA_PORT"}, io)
    IN  c3

\* The DDC's frequency block (lines 646-660).
ddc_setFrequency(c, slf, confDict, io) ==
    IF "DDC_FREQUENCY_OFFSET" \in DOMAIN confDict /\ "frqCmd" \in slf.cmds /\ ~c.raised
    THEN SetAdjusted(c, "frqCmd", "DDC_FREQUENCY_OFFSET",
             adjustFrequency(Get(confDict, "DDC_FREQUENCY_OFFSET", I(0)),
                             ddc_frqRange, ddc_frqRes, ddc_frqUnits),
             ddc_frqUnits, {"DDC_FREQUENCY_OFFSET"}, io)
    ELSE c

\* _ddc._setConfiguration(self, confDict)
ddc_setConfiguration(c0, slf, confDict, io) ==
    LET c1 == SetKeysIfAny(c0, slf, "dportCmd", {"DDC_DATA_PORT"}, confDict, io)
        c2 == ddc_setFrequency(c1, slf, confDict, io)
        c3 == SetKeysIfAny(c2, slf, "cfgCmd", ddc_cfgKeys, confDict, io)
    IN  c3

(***************************************************************************)
(* class _nbddc(_ddc): tunable, with its own recognized keys and handlers; *)
(* the frequency range, resolution and units are those of _ddc.            *)
(***************************************************************************)
nbddc_validConfigurationKeywords ==
    {"ENABLE", "DDC_FREQUENCY_OFFSET", "DDC_RATE_INDEX", "DDC_UDP_DESTINATION",
     "DDC_VITA_ENABLE", "DDC_STREAM_ID", "NBDDC_RF_INDEX"}

\* The keys the narrowband configuration command covers.
nbddc_cfgKeys ==
    {"ENABLE", "DDC_RATE_INDEX", "DDC_UDP_DESTINATION", "DDC_VITA_ENABLE",
     "DDC_STREAM_ID", "NBDDC_RF_INDEX"}

\* _nbddc._queryConfiguration(self); self.tunable is True.
\* self.tunable: True in _nbddc, unless a derived class overrides it.
tunable(slf) == IF "tunable" \in DOMAIN slf THEN slf.tunable ELSE TRUE

\* _nbddc._queryConfiguration(self): the frequency query is under
\* `if self.frqCmd is not None and self.tunable:` (line 734).
nbddc_queryConfiguration(c0, slf, io) ==
    LET c1 == IF tunable(slf)
              THEN QueryFrequency(c0, slf, "frqCmd", "DDC_FREQUENCY_OFFSET", ddc_frqUnits, io)
              ELSE c0
        c2 == QueryKeys(c1, slf, "cfgCmd", nbddc_cfgKeys, io)
    IN  c2

nbddc_setConfiguration_OneCommand(c0, slf, confDict, io) ==
    SetKeysIfAny(c0, slf, "cfgCmd", nbddc_cfgKeys \cup {"DDC_FREQUENCY_OFFSET"}, confDict, io)

\* _nbddc._setConfiguration(self, confDict)
nbddc_setConfiguration(c0, slf, confDict, io) ==
    LET c1 == ddc_setFrequency(c0, slf, confDict, io)
        c2 == SetKeysIfAny(c1, slf, "cfgCmd", nbddc_cfgKeys, confDict, io)
    IN  c2

(***************************************************************************)
(* class _cwToneGen(_base)                                                 *)
(***************************************************************************)
cwToneGen_frqRange == << Hz(-51, -200000), Hz(51, 200000) >>

cwToneGen_frqRes == I(1)

cwToneGen_ampRange == << I(0), I(65535) >>

cwToneGen_ampRes == I(1)

cwToneGen_phaseRange == << I(-180), I(180) >>

cwToneGen_phaseRes == I(1)

cwToneGen_validConfigurationKeywords ==
    {"CW_FREQUENCY", "CW_AMPLITUDE", "CW_PHASE",
     "CW_SWEEP_START", "CW_SWEEP_STOP", "CW_SWEEP_STEP", "CW_SWEEP_DWELL"}

cwToneGen_toneKeys == {"CW_FREQUENCY", "CW_AMPLITUDE", "CW_PHASE"}

cwToneGen_sweepKeys == {"CW_SWEEP_START", "CW_SWEEP_STOP", "CW_SWEEP_STEP", "CW_SWEEP_DWELL"}

\* _cwToneGen._queryConfiguration(self)
cwToneGen_queryConfiguration(c0, slf, io) ==
    LET c1 == QueryKeys(c0, slf, "toneCmd", cwToneGen_toneKeys, io)
        c2 == QueryKeys(c1, slf, "sweepCmd", cwToneGen_sweepKeys, io)
    IN  c2

\* _cwToneGen._setConfiguration(self, confDict)
cwToneGen_setConfiguration(c0, slf, confDict, io) ==
    LET c1 == SetKeysIfAny(c0, slf, "toneCmd", cwToneGen_toneKeys, confDict, io)
        c2 == SetKeysIfAny(c1, slf, "sweepCmd", cwToneGen_sweepKeys, confDict, io)
    IN  c2

(***************************************************************************)
(* class _tx(_base), with toneGenType = _cwToneGen                         *)
(***************************************************************************)
tx_frqRange == << Hz(20, 0), Hz(6000, 0) >>

tx_frqRes == Hz(1, 0)

tx_frqUnits == Hz(1, 0)

tx_attRange == << I(0), I(10) >>

tx_attRes == I(1)

tx_validConfigurationKeywords == {"TX_FREQUENCY", "TX_ATTENUATION", "ENABLE", "CONFIG_CW"}

\* The tone generator objects a transmitter builds in __init__.
cwToneGen_self == [cls |-> "cwToneGen", cmds |-> {"toneCmd", "sweepCmd"}, numToneGen |-> 0]

\* A tone generator as the transmitter holds it.
NewToneGen == [configuration |-> EmptyDict, cmdErrorInfo |-> <<>>]

\* The context of a call on tone generator tg, made from within a call on
\* the transmitter: the child's own fields, the same wire.
ChildCtx(c, tg) ==
    [ret |-> TRUE, raised |-> FALSE, configuration |-> c.toneGenDict[tg].configuration,
     cmdErrorInfo |-> <<>>, toneGenDict |-> <<>>, log |-> c.log, index |-> tg]

\* The transmitter after the call on tone generator tg came back as cc:
\*   self.cmdErrorInfo.extend(self.toneGenDict[tg].getLastCommandErrorInfo())
\* The child's result is not looked at.
AfterChild(c, tg, cc) ==
    [c EXCEPT !.toneGenDict[tg] = [configuration |-> cc.configuration,
                                   cmdErrorInfo |-> cc.cmdErrorInfo],
              !.log = cc.log,
              !.cmdErrorInfo = @ \o cc.cmdErrorInfo,
              !.raised = cc.raised]

\* The key of tone generator tg in a nested CONFIG_CW map (the index itself
\* in the program).
TgKeys == <<"tg1", "tg2", "tg3">>

TgKey(tg) == TgKeys[tg]

\* The same after a query of tone generator tg, whose mirrored map joins the
\* transmitter's under CONFIG_CW:
\*   self.configuration[CONFIG_CW][i] = self.toneGenDict[i].queryConfiguration()
AfterChildQuery(c, tg, cc) ==
    [AfterChild(c, tg, cc) EXCEPT
        !.configuration = Put(@, "CONFIG_CW", Put(@["CONFIG_CW"], TgKey(tg), cc.configuration))]

\* The transmitter's attenuation query (lines 1111-1121): the command joins
\* the diagnostic list before it is sent.
tx_queryAttenuation(c, slf, io) ==
    IF "attCmd" \in slf.cmds
    THEN MirrorRsp(Issue(addLastCommandErrorInfo(c, NewCmd("attCmd", TRUE, EmptyDict)),
                         "attCmd", TRUE, EmptyDict, io),
                   {"TX_ATTENUATION"}, None)
    ELSE c

\* self.toneGenDict[tg].queryConfiguration() and what follows it in the loop.
tx_queryToneGen(c, tg, io) ==
    AfterChildQuery(c, tg, cwToneGen_queryConfiguration(ChildCtx(c, tg), cwToneGen_self, io))

\* for i in self.toneGenDict: the tone generators from tg on, in index order.
RECURSIVE tx_queryToneGensFrom(_, _, _, _)
tx_queryToneGensFrom(c, slf, tg, io) ==
    IF tg > slf.numToneGen THEN c
    ELSE tx_queryToneGensFrom(tx_queryToneGen(c, tg, io), slf, tg + 1, io)

\* The children's part of the transmitter's query (lines 1122-1126), under
\* `if self.toneGenType is not None`: a transmitter has a tone generator type
\* exactly when it has tone generators.
tx_queryToneGens(c, slf, io) ==
    IF slf.numToneGen > 0
    THEN tx_queryToneGensFrom([c EXCEPT !.configuration = Put(@, "CONFIG_CW", EmptyDict)],
                              slf, 1, io)
    ELSE c

\* The transmitter's query with the tone generators queried first.
tx_queryConfiguration_ToneGensFirst(c0, slf, io) ==
    LET c1 == tx_queryToneGens(c0, slf, io)
        c2 == tuner_queryKey(c1, slf, "tpwrCmd", "ENABLE", I(0), io)
        c3 == QueryFrequency(c2, slf, "frqCmd", "TX_FREQUENCY", tx_frqUnits, io)
        c4 == tx_queryAttenuation(c3, slf, io)
    IN  c4

\* _tx._queryConfiguration(self)
tx_queryConfiguration(c0, slf, io) ==
    LET c1 == tuner_queryKey(c0, slf, "tpwrCmd", "ENABLE", I(0), io)
        c2 == QueryFrequency(c1, slf, "frqCmd", "TX_FREQUENCY", tx_frqUnits, io)
        c3 == tx_queryAttenuation(c2, slf, io)
        c4 == tx_queryToneGens(c3, slf, io)
    IN  c4

\* The transmitter's frequency block (lines 1147-1162).
tx_setFrequency(c, slf, confDict, io) ==
    IF "TX_FREQUENCY" \in DOMAIN confDict /\ "frqCmd" \in slf.cmds /\ ~c.raised
    THEN SetAdjusted(c, "frqCmd", "TX_FREQUENCY",
             adjustFrequency(Get(confDict, "TX_FREQUENCY", I(0)),
                             tx_frqRange, tx_frqRes, tx_frqUnits),
             tx_frqUnits, {"TX_FREQUENCY"}, io)
    ELSE c

\* The transmitter's attenuation block (lines 1163-1178).
tx_setAttenuation(c, slf, confDict, io) ==
    IF "TX_ATTENUATION" \in DOMAIN confDict /\ "attCmd" \in slf.cmds /\ ~c.raised
    THEN SetAdjusted(c, "attCmd", "TX_ATTENUATION",
             adjustAttenuation(Get(confDict, "TX_ATTENUATION", I(0)),
                               tx_attRange, tx_attRes, I(1)),
             I(1), {"TX_ATTENUATION"}, io)
    ELSE c

\* if tgNum in confDict[CONFIG_CW]:
\*     self.toneGenDict[tgNum].setConfiguration(**confDict[CONFIG_CW][tgNum])
\*     self.cmdErrorInfo.extend(self.toneGenDict[tgNum].getLastCommandErrorInfo())
tx_setToneGen(c, tg, confDict, io) ==
    IF TgKey(tg) \in DOMAIN confDict["CONFIG_CW"]
    THEN AfterChild(c, tg,
             cwToneGen_setConfiguration(ChildCtx(c, tg), cwToneGen_self,
                 Restrict(confDict["CONFIG_CW"][TgKey(tg)],
                          cwToneGen_validConfigurationKeywords), io))
    ELSE c

RECURSIVE tx_setToneGensFrom_Descending(_, _, _, _, _)
tx_setToneGensFrom_Descending(c, slf, confDict, tg, io) ==
    IF tg > slf.numToneGen THEN c
    ELSE tx_setToneGen(tx_setToneGensFrom_Descending(c, slf, confDict, tg + 1, io),
                       tg, confDict, io)

\* for tgNum in range(self.toneGenIndexBase, self.toneGenIndexBase +
\* self.numToneGen): the tone generators from tg on.
RECURSIVE tx_setToneGensFrom(_, _, _, _, _)
tx_setToneGensFrom(c, slf, confDict, tg, io) ==
    IF tg > slf.numToneGen THEN c
    ELSE tx_setToneGensFrom(tx_setToneGen(c, tg, confDict, io), slf, confDict, tg + 1, io)

\* The children's part of the transmitter's set (lines 1180-1185): each tone
\* generator named in the request gets its own setConfiguration call.
tx_setToneGens(c, slf, confDict, io) ==
    IF slf.numToneGen > 0 /\ "CONFIG_CW" \in DOMAIN confDict /\ ~c.raised
    THEN tx_setToneGensFrom(c, slf, confDict, 1, io)
    ELSE c

tx_setConfiguration_ChildrenFirst(c0, slf, confDict, io) ==
    LET c1 == tx_setToneGens(c0, slf, confDict, io)
        c2 == tuner_setKey(c1, slf, confDict, "tpwrCmd", "ENABLE", io)
        c3 == tx_setFrequency(c2, slf, confDict, io)
        c4 == tx_setAttenuation(c3, slf, confDict, io)
    IN  c4

\* _tx._setConfiguration(self, confDict)
tx_setConfiguration(c0, slf, confDict, io) ==
    LET c1 == tuner_setKey(c0, slf, confDict, "tpwrCmd", "ENABLE", io)
        c2 == tx_setFrequency(c1, slf, confDict, io)
        c3 == tx_setAttenuation(c2, slf, confDict, io)
        c4 == tx_setToneGens(c3, slf, confDict, io)
    IN  c4

(***************************************************************************)
(* class _duc(_base), with the snapshot commands wired                     *)
(***************************************************************************)
duc_validConfigurationKeywords ==
    {"DUC_DATA_PORT", "DUC_FREQUENCY", "DUC_ATTENUATION", "DUC_RATE_INDEX",
     "DUC_TX_CHANNELS", "DUC_MODE", "DUC_STREAM_ID", "DUC_FILENAME",
     "DUC_START_SAMPLE", "DUC_SAMPLES", "DUC_SINGLE_PLAYBACK"}

\* The keys the configuration command covers.
duc_cfgKeys ==
    {"DUC_DATA_PORT", "DUC_FREQUENCY", "DUC_ATTENUATION", "DUC_RATE_INDEX",
     "DUC_TX_CHANNELS", "DUC_MODE", "DUC_STREAM_ID"}

\* The keys of the load-snapshot block and of the transmit-snapshot block.
duc_loadKeys == {"DUC_FILENAME", "DUC_START_SAMPLE", "DUC_SAMPLES"}

duc_txKeys == {"DUC_START_SAMPLE", "DUC_SAMPLES", "DUC_SINGLE_PLAYBACK"}

\* _duc._queryConfiguration(self): every field defaults to 0.
duc_queryConfiguration(c0, slf, io) ==
    IF "cfgCmd" \in slf.cmds
    THEN MirrorRsp(QueryCmd(c0, "cfgCmd", io), duc_cfgKeys, I(0))
    ELSE c0

\* The load-snapshot block (lines 1313-1333): all three keys must be in the
\* request; nothing is mirrored.
duc_loadSnapshot(c, slf, confDict, io) ==
    IF duc_loadKeys \subseteq DOMAIN confDict /\ "snapshotLoadCmd" \in slf.cmds /\ ~c.raised
    THEN AddErrorInfo(Issue(c, "snapshotLoadCmd", FALSE,
                            Restrict(confDict, duc_loadKeys), io)).c
    ELSE c

\* The transmit-snapshot block (lines 1334-1354): any of the keys opens it,
\* and cDict.update then reads all three from confDict (a KeyError when one
\* is missing); nothing is mirrored.
duc_txSnapshot(c, slf, confDict, io) ==
    IF DOMAIN confDict \cap duc_txKeys # {} /\ "snapshotTxCmd" \in slf.cmds /\ ~c.raised
    THEN IF duc_txKeys \subseteq DOMAIN confDict
         THEN AddErrorInfo(Issue(c, "snapshotTxCmd", FALSE,
                  Restrict(confDict, duc_txKeys)
                      @@ dictUpdate(EmptyDict, confDict, c.configuration, duc_txKeys), io)).c
         ELSE [c EXCEPT !.raised = TRUE]
    ELSE c

duc_setConfiguration_TransmitFirst(c0, slf, confDict, io) ==
    LET c1 == SetKeysIfAny(c0, slf, "cfgCmd", duc_cfgKeys, confDict, io)
        c2 == duc_txSnapshot(c1, slf, confDict, io)
        c3 == duc_loadSnapshot(c2, slf, confDict, io)
    IN  c3

\* _duc._setConfiguration(self, confDict)
duc_setConfiguration(c0, slf, confDict, io) ==
    LET c1 == SetKeysIfAny(c0, slf, "cfgCmd", duc_cfgKeys, confDict, io)
        c2 == duc_loadSnapshot(c1, slf, confDict, io)
        c3 == duc_txSnapshot(c2, slf, confDict, io)
    IN  c3

(***************************************************************************)
(* ddc_group and tuner_group: a group of DDCs or of tuners.  The member     *)
(* assignment command takes one potential member and whether it is in the  *)
(* group; the enable command switches the group.                           *)
(***************************************************************************)
\* groupMemberIndexBase = 1
groupMemberIndexBase == 1

\* A Python list of member indices.
List(items) == [tag |-> "list", items |-> items]

\* The configuration keys of a group class: the mirrored members list, the
\* member a query names, and the key under which _setConfiguration hands
\* the member to the command (line 1478; line 1793 for the tuner group,
\* which uses the members key there).
group_keys(slf) ==
    IF slf.cls = "tuner_group"
    THEN [members |-> "TUNER_GROUP_MEMBERS", member |-> "TUNER_GROUP_MEMBER",
          assigned |-> "TUNER_GROUP_MEMBERS"]
    ELSE [members |-> "DDC_GROUP_MEMBERS", member |-> "DDC_GROUP_MEMBER",
          assigned |-> "DDC_GROUP_MEMBER"]

group_validConfigurationKeywords(slf) == {"ENABLE", group_keys(slf).members}

\* What the hardware reports to the member query that names memberIndex:
\* io.rsp holds, for the member command, the answer to each member that gets
\* one.
group_io(io, memberIndex) ==
    [fail |-> io.fail,
     rsp |-> IF "groupMemberCmd" \in DOMAIN io.rsp
             THEN IF memberIndex \in DOMAIN io.rsp["groupMemberCmd"]
                  THEN [io.rsp EXCEPT !["groupMemberCmd"] = @[memberIndex]]
                  ELSE Restrict(io.rsp, DOMAIN io.rsp \ {"groupMemberCmd"})
             ELSE io.rsp]

\* The member loop of _queryConfiguration (lines 1428-1443):
\*   for memberIndex in range(base, base + numGroupMembers):
\*       cmd = groupMemberCmd(member=memberIndex, query=True); cmd.send()
\*       self._addLastCommandErrorInfo(cmd)
\*       rspInfo = cmd.getResponseInfo()
\*       if rspInfo is not None and rspInfo.get(ENABLE, False):
\*           members.append(memberIndex)
\*   self.configuration[MEMBERS] = members
RECURSIVE group_queryMembersFrom(_, _, _, _, _)
group_memberQueried(q, slf, members, memberIndex, io) ==
    group_queryMembersFrom(q.c, slf,
        IF q.cmd.rspInfo # None /\ Get(q.cmd.rspInfo, "ENABLE", I(0)) \notin {I(0), None}
        THEN Append(members, I(memberIndex)) ELSE members,
        memberIndex + 1, io)

group_queryMembersFrom(c, slf, members, memberIndex, io) ==
    IF memberIndex >= slf.groupMemberIndexBase + slf.numGroupMembers
    THEN [c EXCEPT !.configuration = Put(@, group_keys(slf).members, List(members))]
    ELSE group_memberQueried(
             AddErrorInfo(Issue(c, "groupMemberCmd", TRUE,
                                group_keys(slf).member :> I(memberIndex),
                                group_io(io, memberIndex))),
             slf, members, memberIndex, io)

group_queryMembers(c, slf, io) ==
    IF "groupMemberCmd" \in slf.cmds
    THEN group_queryMembersFrom(c, slf, <<>>, slf.groupMemberIndexBase, io)
    ELSE c

group_queryEnable(c, slf, io) ==
    IF "groupEnableCmd" \in slf.cmds
    THEN MirrorRsp(QueryCmd(c, "groupEnableCmd", io), {"ENABLE"}, I(0))
    ELSE c

\* ddc_group._queryConfiguration(self), tuner_group._queryConfiguration(self)
group_queryConfiguration(c0, slf, io) ==
    group_queryEnable(group_queryMembers(c0, slf, io), slf, io)

\* None is no member, an integer that one member, a list itself.
group_asMembers(v) ==
    IF v = None THEN <<>> ELSE IF IsNum(v) THEN <<v>> ELSE v.items

\* The member loop of _setConfiguration (lines 1471-1484):
\*   for member in range(base, base + numGroupMembers):
\*       enabled = 1 if member in members else 0
\*       cmd = groupMemberCmd(member, ENABLE=enabled)
\*       ret &= cmd.send(); ret &= cmd.success
\*       self._addLastCommandErrorInfo(cmd)
RECURSIVE group_setMembersFrom_UntilFailure(_, _, _, _, _)
group_setMembersFrom_UntilFailure(c, slf, members, member, io) ==
    IF member >= slf.groupMemberIndexBase + slf.numGroupMembers \/ ~c.ret
    THEN c
    ELSE group_setMembersFrom_UntilFailure(
             AddErrorInfo(Issue(c, "groupMemberCmd", FALSE,
                 (group_keys(slf).assigned :> I(member))
                     @@ ("ENABLE" :> IF \E j \in DOMAIN members : members[j] = I(member)
                                    THEN I(1) ELSE I(0)), io)).c,
             slf, members, member + 1, io)

RECURSIVE group_setMembersFrom(_, _, _, _, _)
group_setMembersFrom(c, slf, members, member, io) ==
    IF member >= slf.groupMemberIndexBase + slf.numGroupMembers
    THEN c
    ELSE group_setMembersFrom(
             AddErrorInfo(Issue(c, "groupMemberCmd", FALSE,
                 (group_keys(slf).assigned :> I(member))
                     @@ ("ENABLE" :> IF \E j \in DOMAIN members : members[j] = I(member)
                                    THEN I(1) ELSE I(0)), io)).c,
             slf, members, member + 1, io)

\* if ret: self.configuration[MEMBERS] = members
group_mirrorMembers(c, slf, members) ==
    IF c.ret
    THEN [c EXCEPT !.configuration = Put(@, group_keys(slf).members, List(members))]
    ELSE c

\* The members block of _setConfiguration (lines 1463-1486).
group_setMembers(c, slf, confDict, io) ==
    IF "groupMemberCmd" \in slf.cmds /\ group_keys(slf).members \in DOMAIN confDict
    THEN group_mirrorMembers(
             group_setMembersFrom(c, slf, group_asMembers(confDict[group_keys(slf).members]),
                                  slf.groupMemberIndexBase, io),
             slf, group_asMembers(confDict[group_keys(slf).members]))
    ELSE c

\* The enable block of _setConfiguration (lines 1487-1499).
group_setEnable(c, slf, confDict, io) ==
    IF "ENABLE" \in DOMAIN confDict /\ "groupEnableCmd" \in slf.cmds
    THEN SetKey(c, "groupEnableCmd", "ENABLE", Get(confDict, "ENABLE", I(0)), io)
    ELSE c

\* ddc_group._setConfiguration(self, confDict),
\* tuner_group._setConfiguration(self, confDict)
group_setConfiguration(c0, slf, confDict, io) ==
    group_setEnable(group_setMembers(c0, slf, confDict, io), slf, confDict, io)

(***************************************************************************)
(* The public calls of configKeys.Configurable, and the classes' handlers. *)
(***************************************************************************)
validConfigurationKeywords(slf) ==
    CASE slf.cls = "tuner" -> tuner_validConfigurationKeywords
      [] slf.cls = "ddc" -> ddc_validConfigurationKeywords
      [] slf.cls = "nbddc" -> nbddc_validConfigurationKeywords
      [] slf.cls = "cwToneGen" -> cwToneGen_validConfigurationKeywords
      [] slf.cls = "tx" -> tx_validConfigurationKeywords
      [] slf.cls = "duc" -> duc_validConfigurationKeywords
      [] slf.cls \in {"ddc_group", "tuner_group"} -> group_validConfigurationKeywords(slf)

_queryConfiguration(c, slf, io) ==
    CASE slf.cls = "tuner" -> tuner_queryConfiguration(c, slf, io)
      [] slf.cls = "ddc" -> ddc_queryConfiguration(c, slf, io)
      [] slf.cls = "nbddc" -> nbddc_queryConfiguration(c, slf, io)
      [] slf.cls = "cwToneGen" -> cwToneGen_queryConfiguration(c, slf, io)
      [] slf.cls = "tx" -> tx_queryConfiguration(c, slf, io)
      [] slf.cls = "duc" -> duc_queryConfiguration(c, slf, io)
      [] slf.cls \in {"ddc_group", "tuner_group"} -> group_queryConfiguration(c, slf, io)

_setConfiguration(c, slf, confDict, io) ==
    CASE slf.cls = "tuner" -> tuner_setConfiguration(c, slf, confDict, io)
      [] slf.cls = "ddc" -> ddc_setConfiguration(c, slf, confDict, io)
      [] slf.cls = "nbddc" -> nbddc_setConfiguration(c, slf, confDict, io)
      [] slf.cls = "cwToneGen" -> cwToneGen_setConfiguration(c, slf, confDict, io)
      [] slf.cls = "tx" -> tx_setConfiguration(c, slf, confDict, io)
      [] slf.cls = "duc" -> duc_setConfiguration(c, slf, confDict, io)
      [] slf.cls \in {"ddc_group", "tuner_group"} -> group_setConfiguration(c, slf, confDict, io)

\* Configurable.queryConfiguration(self): the diagnostic list starts empty,
\* the class's handler runs, the mirrored map is returned.
queryConfiguration(c, slf, io) ==
    _queryConfiguration([c EXCEPT !.cmdErrorInfo = <<>>], slf, io)

setConfiguration_NoFilter(c, slf, kwargs, io) ==
    _setConfiguration([c EXCEPT !.cmdErrorInfo = <<>>], slf, kwargs, io)

\* Configurable.setConfiguration(self, **kwargs): the diagnostic list starts
\* empty, keys outside validConfigurationKeywords are dropped, the class's
\* handler runs and its result is returned.
setConfiguration(c, slf, kwargs, io) ==
    _setConfiguration([c EXCEPT !.cmdErrorInfo = <<>>], slf,
                      Restrict(kwargs, validConfigurationKeywords(slf)), io)

(***************************************************************************)
(* The components studied, the requests made of them and what the          *)
(* transport and the hardware answer.                                      *)
(***************************************************************************)
\* A request holds at most MaxKeys keys.
MaxKeys == 3

\* At most the first MaxInv invocations of a call can fail.
MaxInv == 2

\* The caller makes at most MaxCalls calls, not counting a call's follow-up.
MaxCalls == 2

Components ==
    { [cls |-> "tuner", cmds |-> {"tpwrCmd", "frqCmd", "attCmd"}, numToneGen |-> 0],
      [cls |-> "ddc", cmds |-> {"cfgCmd", "frqCmd"}, numToneGen |-> 0],
      [cls |-> "tx", cmds |-> {"tpwrCmd", "frqCmd", "attCmd"}, numToneGen |-> 1] }

tuner_Requests ==
    Dicts({"ENABLE", "TUNER_FREQUENCY", "TUNER_ATTENUATION", "TUNER_RF_ATTENUATION"},
          [ENABLE |-> {I(1)},
           TUNER_FREQUENCY |-> {Hz(2450, 1), Hz(3100, 0)},
           TUNER_ATTENUATION |-> {Dec(31, 400)},
           TUNER_RF_ATTENUATION |-> {I(7)}],
          MaxKeys)

ddc_Requests ==
    Dicts({"ENABLE", "DDC_RATE_INDEX", "DDC_VITA_ENABLE", "DDC_FREQUENCY_OFFSET"},
          [ENABLE |-> {I(1)},
           DDC_RATE_INDEX |-> {I(0), I(3)},
           DDC_VITA_ENABLE |-> {I(1)},
           DDC_FREQUENCY_OFFSET |-> {I(5)}],
          MaxKeys)

nbddc_Requests ==
    Dicts({"ENABLE", "DDC_RATE_INDEX", "NBDDC_RF_INDEX", "DDC_FREQUENCY_OFFSET"},
          [ENABLE |-> {I(1)},
           DDC_RATE_INDEX |-> {I(0), I(3)},
           NBDDC_RF_INDEX |-> {I(2)},
           DDC_FREQUENCY_OFFSET |-> {I(5)}],
          MaxKeys)

\* What a request names for tone generator 1.
cwToneGen_Requests ==
    { [CW_FREQUENCY |-> Hz(60, 0)],
      [CW_AMPLITUDE |-> I(7), CW_SWEEP_START |-> I(5)] }

tx_Requests ==
    Dicts({"ENABLE", "TX_FREQUENCY", "TX_ATTENUATION", "CONFIG_CW"},
          [ENABLE |-> {I(1)},
           TX_FREQUENCY |-> {Hz(6100, 0)},
           TX_ATTENUATION |-> {Dec(4, 500)},
           CONFIG_CW |-> { [tg1 |-> d] : d \in cwToneGen_Requests }],
          MaxKeys)

\* The components of the transmit side: a DUC with its snapshot commands
\* wired, a transmitter with three tone generators.
TransmitComponents ==
    { [cls |-> "duc", cmds |-> {"cfgCmd", "snapshotLoadCmd", "snapshotTxCmd"},
       numToneGen |-> 0],
      [cls |-> "tx", cmds |-> {"tpwrCmd", "frqCmd", "attCmd"}, numToneGen |-> 3] }

\* The receive side beyond the wideband DDC: a narrowband DDC.
ReceiveComponents ==
    { [cls |-> "nbddc", cmds |-> {"cfgCmd", "frqCmd"}, numToneGen |-> 0] }

\* Tuners of derived classes that declare a zero or a negative frequency
\* resolution.
MisconfiguredComponents ==
    { [cls |-> "tuner", cmds |-> {"tpwrCmd", "frqCmd", "attCmd"}, numToneGen |-> 0,
       frqRes |-> res] : res \in {I(0), I(-1)} }

\* A group has this many potential members.
NumGroupMembers == 3

\* The groups: a DDC group and a tuner group of derived classes that wire
\* the member and the enable command and give the group its size.
GroupComponents ==
    { [cls |-> cls, cmds |-> {"groupMemberCmd", "groupEnableCmd"}, numToneGen |-> 0,
       groupMemberIndexBase |-> groupMemberIndexBase, numGroupMembers |-> NumGroupMembers]
      : cls \in {"ddc_group", "tuner_group"} }

\* The members a request names: none, one as an integer, a list, and a list
\* with an index beyond the last potential member.
group_Members ==
    { None, I(groupMemberIndexBase + 1),
      List(<<I(groupMemberIndexBase), I(groupMemberIndexBase + 2)>>),
      List(<<I(groupMemberIndexBase + 1), I(groupMemberIndexBase + NumGroupMembers)>>) }

group_Requests(slf) ==
    Dicts({"ENABLE", group_keys(slf).members},
          ("ENABLE" :> {I(1)}) @@ (group_keys(slf).members :> group_Members),
          MaxKeys)

\* A snapshot file name.
FileName == [tag |-> "str", hi |-> 1, lo |-> 0]

duc_Snapshot ==
    [DUC_FILENAME |-> FileName, DUC_START_SAMPLE |-> I(0), DUC_SAMPLES |-> I(64),
     DUC_SINGLE_PLAYBACK |-> I(1)]

duc_Requests ==
    { [DUC_RATE_INDEX |-> I(3)],
      [DUC_FREQUENCY |-> Hz(60, 0), DUC_ATTENUATION |-> Dec(3, 140)],
      duc_Snapshot,
      [DUC_MODE |-> I(1)] @@ duc_Snapshot,
      Restrict(duc_Snapshot, duc_loadKeys),
      [DUC_SINGLE_PLAYBACK |-> I(1)] }

\* Requests that reach several tone generators of a transmitter.
tx3_Requests ==
    { [CONFIG_CW |-> [tg1 |-> [CW_FREQUENCY |-> Hz(60, 0)], tg3 |-> [CW_AMPLITUDE |-> I(7)]]],
      [ENABLE |-> I(1),
       CONFIG_CW |-> [tg1 |-> [CW_AMPLITUDE |-> I(7)], tg3 |-> [CW_AMPLITUDE |-> I(7)]]],
      [TX_FREQUENCY |-> Hz(6100, 0),
       CONFIG_CW |-> [tg2 |-> [CW_SWEEP_START |-> I(5)], tg3 |-> [CW_FREQUENCY |-> Hz(5, 0)]]],
      [CONFIG_CW |-> [tg3 |-> [CW_SWEEP_START |-> I(5)]]] }

Requests(slf) ==
    CASE slf.cls = "tuner" -> tuner_Requests
      [] slf.cls = "ddc" -> ddc_Requests
      [] slf.cls = "nbddc" -> nbddc_Requests
      [] slf.cls = "tx" -> IF slf.numToneGen > 1 THEN tx3_Requests ELSE tx_Requests
      [] slf.cls = "duc" -> duc_Requests
      [] slf.cls = "cwToneGen" -> cwToneGen_Requests
      [] slf.cls \in {"ddc_group", "tuner_group"} -> group_Requests(slf)

\* No call issues more invocations than this for the request.
Invocations(request) ==
    Cardinality(DOMAIN request)
      + (IF "CONFIG_CW" \in DOMAIN request
         THEN Cardinality(UNION { { <<tg, k>> : k \in DOMAIN request["CONFIG_CW"][tg] } :
                                  tg \in DOMAIN request["CONFIG_CW"] }) - 1
         ELSE 0)
      + (IF DOMAIN request \cap {"DDC_GROUP_MEMBERS", "TUNER_GROUP_MEMBERS"} # {}
         THEN NumGroupMembers - 1 ELSE 0)

\* What the hardware reports to the query commands: a command left out gets
\* no usable response, the others the fields given (not always all of them).
tuner_Responses ==
    { EmptyDict,
      [tpwrCmd |-> [ENABLE |-> I(1)], frqCmd |-> [TUNER_FREQUENCY |-> I(2450)],
       attCmd |-> [TUNER_ATTENUATION |-> I(12)]],
      [tpwrCmd |-> EmptyDict, attCmd |-> [TUNER_ATTENUATION |-> I(12)]],
      [frqCmd |-> EmptyDict] }

ddc_Responses ==
    { EmptyDict,
      [frqCmd |-> [DDC_FREQUENCY_OFFSET |-> I(0)],
       cfgCmd |-> [ENABLE |-> I(1), DDC_RATE_INDEX |-> I(1), DDC_STREAM_ID |-> I(9)]],
      [cfgCmd |-> [DDC_RATE_INDEX |-> I(0), DDC_VITA_ENABLE |-> I(0)]] }

nbddc_Responses ==
    { EmptyDict,
      [frqCmd |-> [DDC_FREQUENCY_OFFSET |-> I(0)],
       cfgCmd |-> [ENABLE |-> I(1), DDC_RATE_INDEX |-> I(1), NBDDC_RF_INDEX |-> I(2)]],
      [cfgCmd |-> [DDC_RATE_INDEX |-> I(0)]] }

tx_Responses ==
    { EmptyDict,
      [tpwrCmd |-> [ENABLE |-> I(1)], frqCmd |-> [TX_FREQUENCY |-> I(100)],
       attCmd |-> [TX_ATTENUATION |-> I(3)], toneCmd |-> [CW_FREQUENCY |-> I(5)],
       sweepCmd |-> [CW_SWEEP_START |-> I(2)]],
      [tpwrCmd |-> [ENABLE |-> I(1)], frqCmd |-> [TX_FREQUENCY |-> I(100)],
       toneCmd |-> [CW_FREQUENCY |-> I(5), CW_AMPLITUDE |-> I(1)]],
      [attCmd |-> [TX_ATTENUATION |-> I(3)]] }

duc_Responses ==
    { EmptyDict,
      [cfgCmd |-> [DUC_RATE_INDEX |-> I(1), DUC_FREQUENCY |-> I(5)]],
      [cfgCmd |-> EmptyDict] }

\* To each member query an answer that the member is in the group or is not,
\* or none; to the enable query an answer or none.
group_Responses ==
    { EmptyDict, [groupEnableCmd |-> EmptyDict] }
      \cup UNION { { [groupMemberCmd |-> f],
                     [groupMemberCmd |-> f, groupEnableCmd |-> [ENABLE |-> I(1)]] }
                   : f \in UNION { [S -> { [ENABLE |-> I(1)], [ENABLE |-> I(0)] }]
                                   : S \in SUBSET (groupMemberIndexBase ..
                                         groupMemberIndexBase + NumGroupMembers - 1) } }

Responses(slf) ==
    CASE slf.cls = "tuner" -> tuner_Responses
      [] slf.cls = "ddc" -> ddc_Responses
      [] slf.cls = "nbddc" -> nbddc_Responses
      [] slf.cls = "tx" -> tx_Responses
      [] slf.cls = "duc" -> duc_Responses
      [] slf.cls = "cwToneGen" ->
             { Restrict(rsp, {"toneCmd", "sweepCmd"}) : rsp \in tx_Responses }
      [] slf.cls \in {"ddc_group", "tuner_group"} -> group_Responses

\* No caller is inside a call that another caller could interleave with.
NoRace == [hw |-> EmptyDict, t |-> <<>>, overlap |-> FALSE]

\* What is kept of the call before the last one.
NoCall == [op |-> "none", request |-> EmptyDict, ret |-> TRUE, log |-> <<>>,
           configuration |-> EmptyDict, toneGenDict |-> <<>>]

NoLast == [op |-> "none", request |-> EmptyDict, fail |-> {}, rsp |-> EmptyDict,
           pre |-> EmptyDict, preTone |-> <<>>, log |-> <<>>, ret |-> TRUE,
           raised |-> FALSE, before |-> NoCall, attach |-> <<>>, calls |-> 0]

\* The record of a call: its inputs, the mirrored maps before it, the wire
\* log and the result; before is what is kept of the call it followed.
Call(op, request, io, c, before) ==
    [op |-> op, request |-> request, fail |-> io.fail, rsp |-> io.rsp,
     pre |-> configuration, preTone |-> toneGenDict, log |-> c.log, ret |-> c.ret,
     raised |-> c.raised,
     before |-> before, attach |-> <<>>, calls |-> last.calls + (IF before.op = "none" THEN 1 ELSE 0)]

Here == Ctx(configuration, cmdErrorInfo, toneGenDict, <<>>)

\* A call's effect on the object: an exception leaves what was written
\* before it was raised.
Becomes(c) ==
    /\ configuration' = c.configuration
    /\ cmdErrorInfo' = c.cmdErrorInfo
    /\ toneGenDict' = c.toneGenDict

\* transport = None; callback = kwargs.get("callback", None): an object
\* built without a callback, and the tone generators it builds with its own.
Detached(slf) == [own |-> "None", toneGen |-> [tg \in 1..slf.numToneGen |-> "None"]]

\* One of comps as its constructor leaves it (_base.__init__, _tx.__init__).
Constructed(comps) ==
    /\ self \in comps
    /\ configuration = EmptyDict
    /\ cmdErrorInfo = <<>>
    /\ toneGenDict = [tg \in 1..self.numToneGen |-> NewToneGen]
    /\ transport = Detached(self)
    /\ callback = Detached(self)
    /\ last = NoLast
    /\ race = NoRace

Init == adj = AdjIdle /\ Constructed(Components)

\* comp.setConfiguration(**request)
SetConfiguration ==
    /\ last.op = "none" /\ last.calls < MaxCalls
    /\ \E request \in Requests(self) :
       \E fail \in SUBSET (1..(IF Invocations(request) < MaxInv
                               THEN Invocations(request) ELSE MaxInv)) :
       \E io \in {[fail |-> fail, rsp |-> EmptyDict]} :
       \E c \in {setConfiguration(Here, self, request, io)} :
            /\ fail \subseteq 1..Len(c.log)
            /\ Becomes(c)
            /\ last' = Call("set", request, io, c, NoCall)
            /\ UNCHANGED <<adj, race, self, transport, callback>>

\* comp.queryConfiguration()
QueryConfiguration ==
    /\ last.op = "none" /\ last.calls < MaxCalls
    /\ \E rsp \in Responses(self) :
       \E io \in {[fail |-> {}, rsp |-> rsp]} :
       \E c \in {queryConfiguration(Here, self, io)} :
            /\ Becomes(c)
            /\ last' = Call("query", EmptyDict, io, c, NoCall)
            /\ UNCHANGED <<adj, race, self, transport, callback>>

\* Two wire log entries are the same command: the same wiring with the same
\* value for every key (a key left out has the command's default).
SameCommand(e1, e2) ==
    /\ e1.name = e2.name /\ e1.query = e2.query /\ e1.index = e2.index
    /\ \A k \in DOMAIN e1.args \cup DOMAIN e2.args :
          Get(e1.args, k, None) = Get(e2.args, k, None)

\* The hardware answers the commands of log2 as it answered the same
\* commands in log1.
SameAnswers(log1, log2) ==
    \A i \in DOMAIN log1, j \in DOMAIN log2 :
        SameCommand(log1[i], log2[j]) => log1[i].ok = log2[j].ok

\* The failure patterns a repeated call can meet: the first call's, when that
\* makes the repeated call send the same commands; any, when it does not.
SecondFails(c) ==
    IF /\ Len(c.log) = Len(last.log)
       /\ \A i \in DOMAIN c.log : SameCommand(c.log[i], last.log[i])
    THEN {last.fail} ELSE SUBSET (1..MaxInv)

\* comp.setConfiguration(**request) once more, right after the same call,
\* the hardware answering each command as it did the first time.
SetConfigurationAgain ==
    /\ last.op = "set" /\ last.before.op = "none" /\ ~last.raised
    /\ \E fail \in SecondFails(setConfiguration(Here, self, last.request,
                                                [fail |-> last.fail, rsp |-> EmptyDict])) :
       \E io \in {[fail |-> fail, rsp |-> EmptyDict]} :
       \E c \in {setConfiguration(Here, self, last.request, io)} :
            /\ fail \subseteq 1..Len(c.log)
            /\ SameAnswers(last.log, c.log)
            /\ Becomes(c)
            /\ last' = Call("set", last.request, io, c,
                            [op |-> "set", request |-> last.request, ret |-> last.ret,
                             log |-> last.log, configuration |-> configuration,
                             toneGenDict |-> toneGenDict])
            /\ UNCHANGED <<adj, race, self, transport, callback>>

\* What the hardware reports after a set: to each command that succeeded,
\* the values it was sent.
ReportsSent(log) ==
    [n \in { log[i].name : i \in { j \in DOMAIN log : log[j].ok } } |->
        log[CHOOSE i \in DOMAIN log : log[i].ok /\ log[i].name = n].args]

\* The hardware took every value of the commands of log as it was sent.
AcknowledgedAsSent(log) ==
    \A i \in DOMAIN log : \A k \in DOMAIN log[i].args :
        HwAck(k, log[i].args[k]) = log[i].args[k]

\* comp.queryConfiguration() right after a successful setConfiguration whose
\* values the hardware took as sent: it reports what it was sent.
ApplyThenQuery ==
    /\ last.op = "set" /\ last.before.op = "none" /\ last.ret /\ ~last.raised
    /\ last.log # <<>> /\ AcknowledgedAsSent(last.log)
    /\ \E io \in {[fail |-> {}, rsp |-> ReportsSent(last.log)]} :
       \E c \in {queryConfiguration(Here, self, io)} :
            /\ Becomes(c)
            /\ last' = Call("query", EmptyDict, io, c,
                            [op |-> "set", request |-> last.request, ret |-> last.ret,
                             log |-> last.log, configuration |-> configuration,
                             toneGenDict |-> toneGenDict])
            /\ UNCHANGED <<adj, race, self, transport, callback>>

(***************************************************************************)
(* Attaching and detaching the transport.  An attachment in progress is    *)
(* the call context c, who holds which transport and callback, and the     *)
(* attachments made so far: whose, and after how many invocations.         *)
(***************************************************************************)
Transports == {"T1", "T2"}

Callbacks == {"cb1", "cb2"}

\* self.transport = transport; self.callback = callback, on the component
\* itself (who = 0) or on tone generator who.
Attach(a, who, t, cb) ==
    [a EXCEPT !.transport = IF who = 0 THEN [@ EXCEPT !.own = t]
                            ELSE [@ EXCEPT !.toneGen[who] = t],
              !.callback = IF who = 0 THEN [@ EXCEPT !.own = cb]
                           ELSE [@ EXCEPT !.toneGen[who] = cb],
              !.attach = Append(@, [index |-> who, at |-> Len(a.c.log)])]

\* The transmitter after tone generator tg's own queryConfiguration came
\* back as cc: the tone generator keeps its mirrored map and its diagnostic
\* list, the transmitter's are not touched.
AfterChildAttach(c, tg, cc) ==
    [c EXCEPT !.toneGenDict[tg] = [configuration |-> cc.configuration,
                                   cmdErrorInfo |-> cc.cmdErrorInfo],
              !.log = cc.log,
              !.raised = cc.raised]

\* _base.addTransport(self, transport, callback, queryConfig), on tone
\* generator tg: the attachment, then `if queryConfig:
\* self.queryConfiguration()`.
cwToneGen_addTransport(a, tg, t, cb, queryConfig, io) ==
    [Attach(a, tg, t, cb) EXCEPT
        !.c = IF queryConfig
              THEN AfterChildAttach(@, tg,
                       cwToneGen_queryConfiguration(ChildCtx(@, tg), cwToneGen_self, io))
              ELSE @]

\* for i in self.toneGenDict:
\*     self.toneGenDict[i].addTransport(transport, callback, queryConfig)
RECURSIVE tx_attachToneGensFrom(_, _, _, _, _, _, _)
tx_attachToneGensFrom(a, slf, tg, t, cb, queryConfig, io) ==
    IF tg > slf.numToneGen THEN a
    ELSE tx_attachToneGensFrom(cwToneGen_addTransport(a, tg, t, cb, queryConfig, io),
                               slf, tg + 1, t, cb, queryConfig, io)

\* _base.addTransport(self, transport, callback, queryConfig): the
\* attachment, then `if queryConfig: self.queryConfiguration()`.
base_addTransport(a, slf, t, cb, queryConfig, io) ==
    [Attach(a, 0, t, cb) EXCEPT
        !.c = IF queryConfig THEN queryConfiguration(@, slf, io) ELSE @]

tx_addTransport_ParentFirst(a, slf, t, cb, queryConfig, io) ==
    tx_attachToneGensFrom(base_addTransport(a, slf, t, cb, queryConfig, io),
                          slf, 1, t, cb, queryConfig, io)

\* _tx.addTransport(self, transport, callback, queryConfig)
tx_addTransport(a, slf, t, cb, queryConfig, io) ==
    base_addTransport(tx_attachToneGensFrom(a, slf, 1, t, cb, queryConfig, io),
                      slf, t, cb, queryConfig, io)

\* comp.addTransport(transport, callback, queryConfig), by the class.
addTransport(a, slf, t, cb, queryConfig, io) ==
    IF slf.cls = "tx"
    THEN tx_addTransport(a, slf, t, cb, queryConfig, io)
    ELSE base_addTransport(a, slf, t, cb, queryConfig, io)

delTransport_Cascade(a) ==
    [a EXCEPT !.transport = [own |-> "None", toneGen |-> [tg \in DOMAIN @.toneGen |-> "None"]],
              !.callback = [own |-> "None", toneGen |-> [tg \in DOMAIN @.toneGen |-> "None"]]]

\* _base.delTransport(self): self.transport = None; self.callback = None
delTransport(a) ==
    [a EXCEPT !.transport.own = "None", !.callback.own = "None"]

\* The attachment state a call starts from.
Attached == [c |-> Here, transport |-> transport, callback |-> callback, attach |-> <<>>]

\* What a call leaves of the attachment.
BecomesAttached(a) ==
    /\ Becomes(a.c)
    /\ transport' = a.transport
    /\ callback' = a.callback

\* comp.addTransport(t, cb, queryConfig)
AddTransport ==
    /\ last.op = "none" /\ last.calls < MaxCalls
    /\ \E t \in Transports, cb \in Callbacks, queryConfig \in BOOLEAN :
       \E rsp \in (IF queryConfig THEN Responses(self) ELSE {EmptyDict}) :
       \E io \in {[fail |-> {}, rsp |-> rsp]} :
       \E a \in {addTransport(Attached, self, t, cb, queryConfig, io)} :
            /\ BecomesAttached(a)
            /\ last' = [Call("attach", [transport |-> t, callback |-> cb,
                                        queryConfig |-> queryConfig], io, a.c, NoCall)
                            EXCEPT !.attach = a.attach]
            /\ UNCHANGED <<adj, race, self>>

\* comp.delTransport()
DelTransport ==
    /\ last.op = "none" /\ last.calls < MaxCalls
    /\ \E a \in {delTransport(Attached)} :
            /\ BecomesAttached(a)
            /\ last' = Call("detach", EmptyDict, [fail |-> {}, rsp |-> EmptyDict], a.c, NoCall)
            /\ UNCHANGED <<adj, race, self>>

\* _base.enable(self): return self._setConfiguration({configKeys.ENABLE: 1}).
\* The class's handler is called directly: no key is dropped and the
\* diagnostic list is not emptied first.
disable_AsEnable(c, slf, io) == _setConfiguration(c, slf, [ENABLE |-> I(1)], io)

enable(c, slf, io) == _setConfiguration(c, slf, [ENABLE |-> I(1)], io)

\* _base.disable(self): return self._setConfiguration({configKeys.ENABLE: 0})
disable(c, slf, io) == _setConfiguration(c, slf, [ENABLE |-> I(0)], io)

\* comp.enable()
Enable ==
    /\ last.op = "none" /\ last.calls < MaxCalls
    /\ \E fail \in SUBSET {1} :
       \E io \in {[fail |-> fail, rsp |-> EmptyDict]} :
       \E c \in {enable(Here, self, io)} :
            /\ fail \subseteq 1..Len(c.log)
            /\ Becomes(c)
            /\ last' = Call("enable", [ENABLE |-> I(1)], io, c, NoCall)
            /\ UNCHANGED <<adj, race, self, transport, callback>>

\* comp.disable()
Disable ==
    /\ last.op = "none" /\ last.calls < MaxCalls
    /\ \E fail \in SUBSET {1} :
       \E io \in {[fail |-> fail, rsp |-> EmptyDict]} :
       \E c \in {disable(Here, self, io)} :
            /\ fail \subseteq 1..Len(c.log)
            /\ Becomes(c)
            /\ last' = Call("disable", [ENABLE |-> I(0)], io, c, NoCall)
            /\ UNCHANGED <<adj, race, self, transport, callback>>

\* The caller goes on to its next call: what the last one did is history.
Return ==
    /\ last.op # "none"
    /\ last' = [NoLast EXCEPT !.calls = last.calls]
    /\ UNCHANGED <<adj, race, self, configuration, cmdErrorInfo, toneGenDict, transport, callback>>

Next ==
    \/ SetConfiguration
    \/ QueryConfiguration
    \/ SetConfigurationAgain
    \/ ApplyThenQuery
    \/ Return

Spec == Init /\ [][Next]_vars

\* The transmit side's specification: the same calls, on a DUC and on a
\* transmitter with several tone generators.
InitTransmit == adj = AdjIdle /\ Constructed(TransmitComponents)

SpecTransmit == InitTransmit /\ [][Next]_vars

\* The receive side's specification: the same calls, on the wideband and
\* the narrowband DDC.
InitReceive ==
    /\ adj = AdjIdle
    /\ Constructed({ comp \in Components : comp.cls = "ddc" } \cup ReceiveComponents)

SpecReceive == InitReceive /\ [][Next]_vars

\* The same calls on the tuners with a resolution that is not positive.
InitMisconfigured == adj = AdjIdle /\ Constructed(MisconfiguredComponents)

SpecMisconfigured == InitMisconfigured /\ [][Next]_vars

\* The groups' specification: any sequence of setConfiguration and
\* queryConfiguration calls on a group.
InitGroup == adj = AdjIdle /\ Constructed(GroupComponents)

NextGroup ==
    \/ SetConfiguration
    \/ QueryConfiguration
    \/ Return

SpecGroup == InitGroup /\ [][NextGroup]_vars

\* A narrowband DDC of a derived class that is not tunable; the frequency
\* command is the one _nbddc wires.
NonTunableComponents ==
    { [cls |-> "nbddc", cmds |-> {"cfgCmd", "frqCmd"}, numToneGen |-> 0,
       tunable |-> FALSE] }

InitNonTunable == adj = AdjIdle /\ Constructed(NonTunableComponents)

\* The same calls on the narrowband DDC that is not tunable.
SpecNonTunable == InitNonTunable /\ [][Next]_vars

\* The components with no wiring for the enable key: a tone generator, a
\* DUC, and a tuner whose power command is None.
UnwiredComponents ==
    { cwToneGen_self,
      [cls |-> "duc", cmds |-> {"cfgCmd", "snapshotLoadCmd", "snapshotTxCmd"},
       numToneGen |-> 0],
      [cls |-> "tuner", cmds |-> {"frqCmd", "attCmd"}, numToneGen |-> 0] }

InitUnwired == adj = AdjIdle /\ Constructed(UnwiredComponents)

\* The transport's specification: every component is attached, queried on
\* attachment or not, and detached.
InitTransport == adj = AdjIdle /\ Constructed(Components \cup TransmitComponents)

NextTransport ==
    \/ AddTransport
    \/ DelTransport
    \/ Return

SpecTransport == InitTransport /\ [][NextTransport]_vars

\* The caller's specification: any sequence of queryConfiguration,
\* setConfiguration, enable and disable calls on any of the components.
NextCaller ==
    \/ SetConfiguration
    \/ QueryConfiguration
    \/ Enable
    \/ Disable
    \/ Return

SpecCaller == InitTransport /\ [][NextCaller]_vars

\* The same calls on the components with no wiring for the enable key.
SpecUnwired == InitUnwired /\ [][NextCaller]_vars

(***************************************************************************)
(* Two callers inside setConfiguration on one DDC at the same time, each   *)
(* asking for one key of the configuration command.  Nothing in the call   *)
(* takes a lock, so a caller's steps (reading the mirrored values into the *)
(* command, the round-trip, writing the mirrored values) interleave freely *)
(* with the other caller's.                                                *)
(***************************************************************************)
Callers == {1, 2}

\* The keys the callers ask for, and the values a register takes.
RaceKeys == {"ENABLE", "DDC_RATE_INDEX", "DDC_VITA_ENABLE"}

RaceValues == {I(0), I(1)}

\* The wideband DDC.
ddc_self == CHOOSE comp \in Components : comp.cls = "ddc"

\* The mirrored map once a queryConfiguration has read the registers regs.
MirrorOf(regs) ==
    queryConfiguration(Ctx(EmptyDict, <<>>, <<>>, <<>>), ddc_self,
        [fail |-> {}, rsp |-> [frqCmd |-> [DDC_FREQUENCY_OFFSET |-> I(0)],
                               cfgCmd |-> regs]]).configuration

\* A caller about to enter setConfiguration(**request).
Entering(request) ==
    [pc |-> "read", request |-> request, cmd |-> NewCmd("cfgCmd", FALSE, EmptyDict),
     ret |-> TRUE]

\* The radio holds some registers, the mirrored map is what a query made of
\* them, and each caller is about to ask for another value of a key of its
\* own.
InitConcurrent ==
    /\ adj = AdjIdle
    /\ self = ddc_self
    /\ cmdErrorInfo = <<>>
    /\ toneGenDict = <<>>
    /\ transport = Detached(self)
    /\ callback = Detached(self)
    /\ last = NoLast
    /\ \E regs \in [ddc_cfgKeys -> RaceValues] :
       \E k1 \in RaceKeys : \E k2 \in RaceKeys \ {k1} :
       \E v1 \in RaceValues \ {regs[k1]} : \E v2 \in RaceValues \ {regs[k2]} :
            /\ configuration = MirrorOf(regs)
            /\ race = [hw |-> regs,
                       t |-> << Entering([k \in {k1} |-> v1]),
                                Entering([k \in {k2} |-> v2]) >>,
                       overlap |-> FALSE]

\* The other caller is between its read and its return.
Inside(t) == race.t[t].pc \in {"send", "write"}

\* cDict = {}; self._dictUpdate(cDict, confDict, self.configuration, keys)
ddc_readConfiguration_NoMerge(conf, confDict) ==
    dictUpdate(EmptyDict, confDict, EmptyDict, ddc_cfgKeys)

ddc_readConfiguration(conf, confDict) ==
    dictUpdate(EmptyDict, confDict, conf, ddc_cfgKeys)

\* Caller t enters setConfiguration: the diagnostic list is reset, the
\* request is filtered, and the configuration block builds its command from
\* the request and the mirrored map as it is now (lines 662-675).
RaceRead ==
    \E t \in Callers :
        /\ race.t[t].pc = "read"
        /\ race' = [race EXCEPT
               !.t[t].pc = "send",
               !.t[t].cmd = NewCmd("cfgCmd", FALSE,
                   ddc_readConfiguration(configuration,
                       Restrict(race.t[t].request, validConfigurationKeywords(self)))),
               !.overlap = @ \/ Inside(3 - t)]
        /\ cmdErrorInfo' = <<>>
        /\ UNCHANGED <<adj, self, configuration, toneGenDict, transport, callback, last>>

\* The round-trip of caller t's command (lines 676-678): if it succeeds the
\* radio's registers take the values the command carries; the outcome joins
\* the diagnostic list.
RaceRoundTrip ==
    \E t \in Callers, fail \in SUBSET {1} :
    \E cmd \in {Send(race.t[t].cmd, 1, [fail |-> fail, rsp |-> EmptyDict])} :
        /\ race.t[t].pc = "send"
        /\ race' = [race EXCEPT
               !.t[t].pc = "write",
               !.t[t].cmd = cmd,
               !.t[t].ret = @ /\ cmd.ok,
               !.hw = IF cmd.ok
                      THEN [k \in DOMAIN @ |-> IF k \in DOMAIN cmd.attr THEN cmd.attr[k] ELSE @[k]]
                      ELSE @]
        /\ cmdErrorInfo' = Append(cmdErrorInfo,
               [name |-> cmd.name, sent |-> cmd.sent, ok |-> cmd.ok, index |-> 0])
        /\ UNCHANGED <<adj, self, configuration, toneGenDict, transport, callback, last>>

\* Caller t writes the mirrored values (lines 679-683) and returns ret:
\*   if ret: for key in keys: self.configuration[key] = getattr(cmd, key)
RaceWrite ==
    \E t \in Callers :
        /\ race.t[t].pc = "write"
        /\ race' = [race EXCEPT !.t[t].pc = "done"]
        /\ configuration' =
               MirrorAttrs([cmd |-> race.t[t].cmd,
                            c |-> [Here EXCEPT !.ret = race.t[t].ret]],
                           ddc_cfgKeys).configuration
        /\ UNCHANGED <<adj, self, cmdErrorInfo, toneGenDict, transport, callback, last>>

NextConcurrent ==
    \/ RaceRead
    \/ RaceRoundTrip
    \/ RaceWrite

SpecConcurrent == InitConcurrent /\ [][NextConcurrent]_vars

\* The value transform's own specification.
MainIdle ==
    /\ self = [cls |-> "none", cmds |-> {}, numToneGen |-> 0]
    /\ configuration = EmptyDict
    /\ cmdErrorInfo = <<>>
    /\ toneGenDict = <<>>
    /\ transport = [own |-> "None", toneGen |-> <<>>]
    /\ callback = [own |-> "None", toneGen |-> <<>>]
    /\ last = NoLast
    /\ race = NoRace

InitAdjust == AdjInit /\ MainIdle

NextAdjust == CallAdjustFrequency \/ CallAdjustAttenuation

SpecAdjust == InitAdjust /\ [][NextAdjust]_vars

(***************************************************************************)
(* Properties of the value transform.                                      *)
(***************************************************************************)
AdjDone == adj.pc = "done" /\ adj.out # Raised

\* The result taken back to application units.
AdjOutApp == NumMul(adj.out, adj.spec.units)

IsMultipleOf(x, r) == \E n \in (-(MaxQ + 1))..(MaxQ + 1) : NumMulInt(n, r) = x

AdjInRange == /\ NumLE(NumDiv(AdjRange(adj)[1], adj.spec.units), adj.out)
              /\ NumLE(adj.out, NumDiv(AdjRange(adj)[2], adj.spec.units))

AdjQuantized == IsMultipleOf(adj.out, NumDiv(adj.spec.res, adj.spec.units))

\* Both range bounds are multiples of the resolution.
AdjRangeOnGrid == adj.steps[1] % 4 = 0 /\ adj.steps[2] % 4 = 0

\* The input lies in the range, exactly halfway between two multiples of the
\* resolution.
AdjTie == /\ adj.k % 4 = 2
          /\ adj.steps[1] <= adj.k /\ adj.k <= adj.steps[2]

\* C6 as stated: for every TransformSpec with resolution > 0 and every input,
\* the transformed value lies within the range and is an exact multiple of
\* the resolution (in hardware-native units).
C6_AnyResolutionInRangeAndQuantized ==
    AdjDone => (AdjInRange /\ AdjQuantized)

\* C6 amended: when the resolution is a power of ten and both range bounds
\* are multiples of it, the transformed value lies within the range and is
\* an exact multiple of the resolution (in hardware-native units).
C6_DecimalResolutionInRangeAndQuantized ==
    (AdjDone /\ adj.spec \in DecimalSpecs /\ AdjRangeOnGrid)
        => (AdjInRange /\ AdjQuantized)

\* An out-of-range, sub-resolution input has been clamped and quantized.
C6_Witness ==
    /\ AdjDone /\ adj.spec \in DecimalSpecs /\ AdjRangeOnGrid
    /\ adj.k > adj.steps[2] /\ adj.k % 4 # 0
    /\ AdjOutApp = AdjRange(adj)[2]

RequestedKeys == DOMAIN last.request \cap validConfigurationKeywords(self)

\* What the last request names for tone generator 1.
ToneGenRequest ==
    IF "CONFIG_CW" \in RequestedKeys /\ self.numToneGen > 0
    THEN IF "tg1" \in DOMAIN last.request["CONFIG_CW"]
         THEN Restrict(last.request["CONFIG_CW"]["tg1"], cwToneGen_validConfigurationKeywords)
         ELSE EmptyDict
    ELSE EmptyDict

\* The failure entries of the diagnostic list.
FailureEntries == { i \in DOMAIN cmdErrorInfo : cmdErrorInfo[i].sent /\ ~cmdErrorInfo[i].ok }

\* The invocations of the last call that failed.
FailedInvocations == { i \in DOMAIN last.log : ~last.log[i].ok }

\* A tuner's setConfiguration issued enable, frequency and attenuation, and
\* only the frequency invocation failed.
C1_Case ==
    /\ self.cls = "tuner" /\ last.op = "set" /\ Len(last.log) = 3
    /\ last.log[1].name = "tpwrCmd" /\ last.log[1].ok
    /\ last.log[2].name = "frqCmd" /\ ~last.log[2].ok
    /\ last.log[3].name = "attCmd" /\ last.log[3].ok

\* C1 as stated: when a setConfiguration issues three wirings A, B, C and
\* only B's invocation fails, the mirrored entries covered by A and by C are
\* both updated, the call returns false, and the diagnostic list holds
\* exactly one failure entry, B's.
C1_PartialFailureIsolation ==
    C1_Case =>
        /\ Get(configuration, "ENABLE", None) = last.log[1].args["ENABLE"]
        /\ Get(configuration, "TUNER_ATTENUATION", None) = last.log[3].args["TUNER_ATTENUATION"]
        /\ ~last.ret
        /\ Cardinality(FailureEntries) = 1
        /\ \A i \in FailureEntries : cmdErrorInfo[i].name = "frqCmd"

\* The wirings of a component: the command and the keys it covers.
Wirings(slf) ==
    { w \in
        CASE slf.cls = "tuner" ->
               { [name |-> "tpwrCmd", keys |-> {"ENABLE"}],
                 [name |-> "frqCmd", keys |-> {"TUNER_FREQUENCY"}],
                 [name |-> "attCmd", keys |-> {"TUNER_ATTENUATION", "TUNER_RF_ATTENUATION"}] }
          [] slf.cls = "ddc" ->
               { [name |-> "dportCmd", keys |-> {"DDC_DATA_PORT"}],
                 [name |-> "frqCmd", keys |-> {"DDC_FREQUENCY_OFFSET"}],
                 [name |-> "cfgCmd", keys |-> ddc_cfgKeys] }
          [] slf.cls = "nbddc" ->
               { [name |-> "frqCmd", keys |-> {"DDC_FREQUENCY_OFFSET"}],
                 [name |-> "cfgCmd", keys |-> nbddc_cfgKeys] }
          [] slf.cls = "tx" ->
               { [name |-> "tpwrCmd", keys |-> {"ENABLE"}],
                 [name |-> "frqCmd", keys |-> {"TX_FREQUENCY"}],
                 [name |-> "attCmd", keys |-> {"TX_ATTENUATION"}] }
          [] slf.cls = "cwToneGen" ->
               { [name |-> "toneCmd", keys |-> cwToneGen_toneKeys],
                 [name |-> "sweepCmd", keys |-> cwToneGen_sweepKeys] }
          [] slf.cls = "duc" ->
               { [name |-> "cfgCmd", keys |-> duc_cfgKeys],
                 [name |-> "snapshotLoadCmd", keys |-> duc_loadKeys],
                 [name |-> "snapshotTxCmd", keys |-> duc_txKeys] }
          [] slf.cls \in {"ddc_group", "tuner_group"} ->
               { [name |-> "groupMemberCmd", keys |-> {group_keys(slf).members}],
                 [name |-> "groupEnableCmd", keys |-> {"ENABLE"}] }
        : w.name \in slf.cmds }

\* How many invocations of the command the last call issued.
Issued(name) == Cardinality({ i \in DOMAIN last.log : last.log[i].name = name })

\* C2 as stated: for every component type and every requested map,
\* setConfiguration issues every wiring whose covered keys intersect the
\* requested keys exactly once, whatever failed before it, and returns true
\* if and only if every invocation issued in the call succeeded.
C2_EveryWiringOnceAndResultIsConjunction ==
    (last.op = "set" /\ ~last.raised) =>
        /\ \A w \in Wirings(self) :
              (w.keys \cap RequestedKeys # {}) => Issued(w.name) = 1
        /\ \A w \in Wirings(cwToneGen_self) :
              (w.keys \cap DOMAIN ToneGenRequest # {}) => Issued(w.name) = 1
        /\ last.ret = (FailedInvocations = {})

\* C3 as stated: for every component type, a failing invocation of a set or
\* of a query is never raised to the caller; the call completes, and the
\* failure shows as the command's outcome (success = false) and as a
\* failure entry for that command in the diagnostic list.
C3_FailureReportedNeverRaised ==
    (last.op # "none") =>
        /\ ~last.raised
        /\ \A i \in FailedInvocations :
              \E j \in FailureEntries : cmdErrorInfo[j].name = last.log[i].name

\* The mirrored map a wiring's invocation merges from: the component's own,
\* or the tone generator's, as it was before the call.
MirrorBefore(name) ==
    IF name \in {"toneCmd", "sweepCmd"}
    THEN last.preTone[1].configuration ELSE last.pre

\* The request a wiring's invocation serves.
RequestFor(name) ==
    IF name \in {"toneCmd", "sweepCmd"} THEN ToneGenRequest
    ELSE Restrict(last.request, RequestedKeys)

\* The shared wirings: one invocation carries several keys.
SharedWirings ==
    { w \in Wirings(self) \cup (IF self.numToneGen > 0 THEN Wirings(cwToneGen_self) ELSE {}) :
        w.name \in {"cfgCmd", "toneCmd", "sweepCmd"} }

C5_MirrorHoldsAcknowledgedValue ==
    (self.cls = "tuner" /\ last.op = "set" /\ last.ret) =>
        \A i \in DOMAIN last.log :
            (last.log[i].name = "frqCmd") =>
                Get(configuration, "TUNER_FREQUENCY", None)
                    = NumMul(HwAck("TUNER_FREQUENCY", last.log[i].args["TUNER_FREQUENCY"]),
                             tuner_frqUnits)

\* The numeric keys of a component type that declare a range and a
\* resolution, in application units.
TransformSpecOf(cls) ==
    CASE cls = "tuner" ->
           [TUNER_FREQUENCY |-> [range |-> tuner_frqRange, res |-> tuner_frqRes],
            TUNER_ATTENUATION |-> [range |-> tuner_attRange, res |-> tuner_attRes],
            TUNER_RF_ATTENUATION |-> [range |-> tuner_attRange, res |-> tuner_attRes]]
      [] cls = "ddc" ->
           [DDC_FREQUENCY_OFFSET |-> [range |-> ddc_frqRange, res |-> ddc_frqRes]]
      [] cls = "tx" ->
           [TX_FREQUENCY |-> [range |-> tx_frqRange, res |-> tx_frqRes],
            TX_ATTENUATION |-> [range |-> tx_attRange, res |-> tx_attRes]]
      [] cls = "cwToneGen" ->
           [CW_FREQUENCY |-> [range |-> cwToneGen_frqRange, res |-> cwToneGen_frqRes],
            CW_AMPLITUDE |-> [range |-> cwToneGen_ampRange, res |-> cwToneGen_ampRes],
            CW_PHASE |-> [range |-> cwToneGen_phaseRange, res |-> cwToneGen_phaseRes]]

Clamp(v, range) ==
    IF NumLT(v, range[1]) THEN range[1] ELSE IF NumLT(range[2], v) THEN range[2] ELSE v

\* x is a number within res/2 of target.
WithinHalf(x, target, res) ==
    IsNum(x) /\ NumLE(NumMulInt(2, NumAbs(NumSub(x, target))), res)

\* Every key of request with a transform specification reads back, from
\* mirror, within half a resolution of the requested value clamped.
RoundTrips(cls, request, mirror) ==
    \A k \in DOMAIN request \cap DOMAIN TransformSpecOf(cls) :
        WithinHalf(Get(mirror, k, None),
                   Clamp(request[k], TransformSpecOf(cls)[k].range),
                   TransformSpecOf(cls)[k].res)

\* A successful setConfiguration has been followed by queryConfiguration, the
\* hardware reporting what it was sent.
AppliedThenQueried == last.op = "query" /\ last.before.op = "set"

\* The request of the set, as the component and its tone generator took it.
AppliedRequest ==
    Restrict(last.before.request, validConfigurationKeywords(self))

AppliedToneGenRequest ==
    IF "CONFIG_CW" \in DOMAIN AppliedRequest
    THEN Restrict(AppliedRequest["CONFIG_CW"]["tg1"], cwToneGen_validConfigurationKeywords)
    ELSE EmptyDict

\* C7 as stated: for every numeric key with a transform specification and
\* every value v, a successful setConfiguration of v followed by
\* queryConfiguration leaves a mirrored value within resolution/2 of v
\* clamped to the range.  (A tuner request naming both attenuation keys is
\* left aside: one invocation serves the two.)
C7_RoundTripLaw ==
    (/\ AppliedThenQueried
     /\ ~({"TUNER_ATTENUATION", "TUNER_RF_ATTENUATION"} \subseteq DOMAIN AppliedRequest)) =>
        /\ RoundTrips(self.cls, Restrict(AppliedRequest, DOMAIN AppliedRequest \ {"CONFIG_CW"}),
                      configuration)
        /\ self.numToneGen > 0 =>
              RoundTrips("cwToneGen", AppliedToneGenRequest, toneGenDict[1].configuration)

\* The request of the concrete scenario.
C8_Request == [TUNER_FREQUENCY |-> Hz(2450, 1), TUNER_ATTENUATION |-> Dec(31, 400)]

\* C8: on a tuner (frequency range [20e6, 3e9], resolution 1e6, unit 1e6,
\* attenuation range [0, 30], resolution 1), a fully successful
\* setConfiguration of frequency 2450000001 and attenuation 31.4 leaves
\* mirrored frequency 2450000000 and attenuation 30, and sends 2450 and 30.
C8_ConcreteScenario ==
    (self.cls = "tuner" /\ last.op = "set" /\ last.request = C8_Request /\ last.ret) =>
        /\ Get(configuration, "TUNER_FREQUENCY", None) = Hz(2450, 0)
        /\ Get(configuration, "TUNER_ATTENUATION", None) = I(30)
        /\ Len(last.log) = 2
        /\ last.log[1].name = "frqCmd" /\ last.log[1].args["TUNER_FREQUENCY"] = I(2450)
        /\ last.log[2].name = "attCmd" /\ last.log[2].args["TUNER_ATTENUATION"] = I(30)

\* The scenario has run, both invocations succeeding.
C8_Witness ==
    /\ self.cls = "tuner" /\ last.op = "set" /\ last.request = C8_Request /\ last.ret
    /\ Len(last.log) = 2 /\ last.fail = {}
    /\ configuration["TUNER_FREQUENCY"] = Hz(2450, 0)

\* The mirrored maps of the tone generators.
ToneGenMirrors(tgd) == [tg \in DOMAIN tgd |-> tgd[tg].configuration]

UnrecognizedKeys == DOMAIN last.request \ validConfigurationKeywords(self)

\* C11: a setConfiguration request holding a key outside the component's
\* recognized-key set beside recognized ones does not error, issues
\* invocations only for the wirings of the recognized keys, none carrying
\* the unrecognized key, and leaves the mirrored map without an entry for
\* the unrecognized key.
C11_KeyFiltering ==
    (last.op = "set" /\ UnrecognizedKeys # {}) =>
        /\ ~last.raised
        /\ \A i \in DOMAIN last.log :
              /\ DOMAIN last.log[i].args \cap UnrecognizedKeys = {}
              /\ last.log[i].index = 0 =>
                    \E w \in Wirings(self) :
                        w.name = last.log[i].name /\ w.keys \cap RequestedKeys # {}
        /\ \A k \in UnrecognizedKeys :
              k \notin DOMAIN last.pre => k \notin DOMAIN configuration

\* A wideband DDC, whose frequency command is wired, was asked for its
\* frequency offset (not a recognized key) and its enable: one invocation,
\* the configuration command's, went out and succeeded.
C11_Witness ==
    /\ last.op = "set" /\ self.cls = "ddc" /\ "frqCmd" \in self.cmds
    /\ DOMAIN last.request = {"DDC_FREQUENCY_OFFSET", "ENABLE"}
    /\ Len(last.log) = 1 /\ last.log[1].name = "cfgCmd" /\ last.ret
    /\ configuration["ENABLE"] = last.request["ENABLE"]

\* The positions in the last call's wire log of the invocations of a wiring.
PositionsOf(name) == { i \in DOMAIN last.log : last.log[i].name = name }

\* C12: when one DUC setConfiguration call carries the load-snapshot keys
\* and the transmit-snapshot keys, the load invocation has made its
\* round-trip (whatever its outcome) before the transmit invocation is
\* issued, and both come after the DUC configuration invocation.
C12_SnapshotOrdering ==
    (/\ last.op = "set" /\ self.cls = "duc"
     /\ {"snapshotLoadCmd", "snapshotTxCmd"} \subseteq self.cmds
     /\ (duc_loadKeys \cup duc_txKeys) \subseteq DOMAIN last.request) =>
        /\ ~last.raised
        /\ Cardinality(PositionsOf("snapshotLoadCmd")) = 1
        /\ Cardinality(PositionsOf("snapshotTxCmd")) = 1
        /\ \A i \in PositionsOf("snapshotLoadCmd"), j \in PositionsOf("snapshotTxCmd") :
              /\ i < j
              /\ \A k \in PositionsOf("cfgCmd") : k < i
              /\ \E e \in DOMAIN cmdErrorInfo :
                    /\ cmdErrorInfo[e].name = "snapshotLoadCmd" /\ cmdErrorInfo[e].sent
                    /\ cmdErrorInfo[e].ok = last.log[i].ok
                    /\ \A f \in DOMAIN cmdErrorInfo :
                          cmdErrorInfo[f].name = "snapshotTxCmd" => e < f

\* A DUC was asked for its mode and a snapshot to load and play: the
\* configuration, load and transmit invocations went out in that order.
C12_Witness ==
    /\ last.op = "set" /\ self.cls = "duc"
    /\ "DUC_MODE" \in DOMAIN last.request /\ duc_loadKeys \subseteq DOMAIN last.request
    /\ Len(last.log) = 3
    /\ last.log[1].name = "cfgCmd"
    /\ last.log[2].name = "snapshotLoadCmd" /\ ~last.log[2].ok
    /\ last.log[3].name = "snapshotTxCmd" /\ last.log[3].ok

\* The tone generators the last request names.
TouchedToneGens ==
    IF "CONFIG_CW" \in DOMAIN last.request
    THEN { tg \in 1..self.numToneGen : TgKey(tg) \in DOMAIN last.request["CONFIG_CW"] }
    ELSE {}

\* The entries of a wire log or of a diagnostic list are in ascending order
\* of the tone generators they belong to.
AscendingChildren(entries) ==
    \A i, j \in DOMAIN entries :
        (i < j /\ entries[i].index > 0 /\ entries[j].index > 0)
            => entries[i].index <= entries[j].index

\* C13: a transmitter's setConfiguration that names several tone generators
\* processes them in ascending index order, the parent's diagnostic list
\* holds their entries in that order, and every tone generator named is
\* processed whether or not an invocation of an earlier one failed.
C13_CompositePropagation ==
    (last.op = "set" /\ self.cls = "tx" /\ ~last.raised) =>
        /\ AscendingChildren(last.log)
        /\ AscendingChildren(cmdErrorInfo)
        /\ \A tg \in TouchedToneGens :
              /\ \E i \in DOMAIN last.log : last.log[i].index = tg
              /\ \E i \in DOMAIN cmdErrorInfo : cmdErrorInfo[i].index = tg

\* A set that names tone generators 1 and 3, in which an invocation of tone
\* generator 1 failed and tone generator 3 was processed after it.
C13_Witness ==
    /\ last.op = "set" /\ self.cls = "tx" /\ TouchedToneGens = {1, 3}
    /\ \E i, j \in DOMAIN last.log :
          /\ i < j /\ last.log[i].index = 1 /\ ~last.log[i].ok /\ last.log[j].index = 3
    /\ \E i, j \in DOMAIN cmdErrorInfo :
          /\ i < j /\ cmdErrorInfo[i].index = 1 /\ ~cmdErrorInfo[i].ok
          /\ cmdErrorInfo[j].index = 3

\* C14 as stated: a composite component's setConfiguration returns false
\* whenever an invocation issued during the call fails, an invocation issued
\* by one of its children included.
C14_CompositeResultCoversChildren ==
    (last.op = "set" /\ self.numToneGen > 0 /\ ~last.raised) =>
        ((\E i \in DOMAIN last.log : ~last.log[i].ok) => ~last.ret)

(***************************************************************************)
(* Properties of addTransport and delTransport.                            *)
(***************************************************************************)
\* Where in the last call's attachments the component itself was attached.
OwnAttachment == CHOOSE i \in DOMAIN last.attach : last.attach[i].index = 0

\* The last call attached every tone generator before the component itself,
\* and left all of them with the transport and the callback it was given.
AttachedChildrenFirst ==
    /\ Cardinality({ i \in DOMAIN last.attach : last.attach[i].index = 0 }) = 1
    /\ \A tg \in 1..self.numToneGen :
          \E i \in DOMAIN last.attach : last.attach[i].index = tg /\ i < OwnAttachment
    /\ transport.own = last.request.transport
    /\ callback.own = last.request.callback
    /\ \A tg \in 1..self.numToneGen :
          /\ transport.toneGen[tg] = transport.own
          /\ callback.toneGen[tg] = callback.own

\* The invocations of the last call issued before the component itself was
\* attached.
BeforeOwnAttachment == 1..last.attach[OwnAttachment].at

\* C15 as stated: addTransport on a composite attaches transport and
\* callback to every child before the parent, with query-on-attach every
\* query invocation of a child is issued before any of the parent's own, and
\* afterwards the parent and every child hold the same transport and callback.
C15_EveryChildQueryBeforeParents ==
    (last.op = "attach") =>
        /\ AttachedChildrenFirst
        /\ last.request.queryConfig =>
              \A i, j \in DOMAIN last.log :
                  (last.log[i].index > 0 /\ last.log[j].index = 0) => i < j

\* C15, amended: addTransport on a composite attaches transport and callback
\* to every child before the parent; with query-on-attach each child's query
\* wirings are all issued, as part of the child's own attachment, before the
\* parent is attached and so before any of the parent's own query
\* invocations (the parent's query then queries the children once more);
\* afterwards the parent and every child hold the same transport and callback.
C15_ChildrenAttachAndQueryFirst ==
    (last.op = "attach") =>
        /\ AttachedChildrenFirst
        /\ last.request.queryConfig =>
              /\ \A tg \in 1..self.numToneGen : \A w \in Wirings(cwToneGen_self) :
                    \E i \in BeforeOwnAttachment :
                        last.log[i].index = tg /\ last.log[i].name = w.name
              /\ \A j \in DOMAIN last.log :
                    last.log[j].index = 0 => j \notin BeforeOwnAttachment

\* A transmitter with three tone generators was attached with
\* query-on-attach, and queries of its own followed those of its children.
C15_Witness ==
    /\ last.op = "attach" /\ self.numToneGen = 3 /\ last.request.queryConfig
    /\ \E j \in DOMAIN last.log : last.log[j].index = 0
    /\ BeforeOwnAttachment # {}
    /\ transport.toneGen[3] = "T2" /\ callback.own = "cb1"

\* C16: delTransport clears the transport and the callback of the component
\* it is called on and of nothing else: the tone generators keep theirs, and
\* no mirrored map and no diagnostic list changes.
C16_DelTransportOwnOnly ==
    [][DelTransport =>
          /\ transport'.own = "None" /\ callback'.own = "None"
          /\ transport'.toneGen = transport.toneGen
          /\ callback'.toneGen = callback.toneGen
          /\ UNCHANGED <<configuration, cmdErrorInfo, toneGenDict>>]_vars

\* A transmitter was attached and then detached: its tone generators still
\* hold the transport and the callback, it holds none, and the mirrored
\* maps the attachment's queries filled are there.
C16_Witness ==
    /\ last.op = "detach" /\ self.numToneGen = 3
    /\ transport.own = "None" /\ callback.own = "None"
    /\ \A tg \in 1..3 : transport.toneGen[tg] = "T1" /\ callback.toneGen[tg] = "cb2"
    /\ configuration # EmptyDict
    /\ toneGenDict[1].configuration # EmptyDict

(***************************************************************************)
(* Properties of queryConfiguration and of the diagnostic list.            *)
(***************************************************************************)
\* The keys of the component's own wirings that the last call's successful
\* query responses left out.
AbsentFromResponse ==
    UNION { w.keys \ DOMAIN last.rsp[w.name] :
            w \in { v \in Wirings(self) : v.name \in DOMAIN last.rsp } }

\* C17 as stated: in queryConfiguration a key absent from a successful
\* response leaves the mirrored entry at its prior value (not reset to null
\* or to a default); an entry that was absent stays absent.
C17_AbsentKeyKeepsPriorValue ==
    (last.op = "query") =>
        \A k \in AbsentFromResponse :
            IF k \in DOMAIN last.pre
            THEN k \in DOMAIN configuration /\ configuration[k] = last.pre[k]
            ELSE k \notin DOMAIN configuration

\* How many query invocations of the command the last call issued on the
\* component itself (who = 0) or on tone generator who.
Queried(who, name) ==
    Cardinality({ i \in DOMAIN last.log :
                    /\ last.log[i].index = who /\ last.log[i].name = name
                    /\ last.log[i].query })

C19_OutcomeAppendedAfterRoundTrip ==
    (last.op \in {"set", "query"} /\ ~last.raised) =>
        /\ Len(cmdErrorInfo) = Len(last.log)
        /\ \A i \in DOMAIN last.log :
              /\ cmdErrorInfo[i].name = last.log[i].name
              /\ cmdErrorInfo[i].index = last.log[i].index
              /\ cmdErrorInfo[i].sent
              /\ cmdErrorInfo[i].ok = last.log[i].ok

\* C20 as stated: in every reachable state, after any sequence of
\* queryConfiguration, setConfiguration, enable and disable calls, every key
\* of a component's mirrored map belongs to the recognized-key set of the
\* component's type.
C20_MirroredKeysAreRecognized ==
    /\ DOMAIN configuration \subseteq validConfigurationKeywords(self)
    /\ \A tg \in DOMAIN toneGenDict :
          DOMAIN toneGenDict[tg].configuration \subseteq cwToneGen_validConfigurationKeywords

(***************************************************************************)
(* Coverage, ordering and key-to-command mapping.                          *)
(***************************************************************************)
\* The wirings of the component that have a query mode: the DUC's load
\* snapshot command is declared set-only.
QueryWirings == { w \in Wirings(self) : w.name # "snapshotLoadCmd" }

\* C21 as stated: after a queryConfiguration call in which every invocation
\* succeeds, the mirrored map holds an entry (possibly null) for every
\* recognized key that one of the component's wirings covers, the DUC's
\* snapshot keys included when its snapshot transmit command is wired.
C21_QueryPopulatesEveryCoveredKey ==
    (last.op = "query" /\ \A i \in DOMAIN last.log : last.log[i].ok) =>
        \A w \in QueryWirings :
            (w.keys \cap validConfigurationKeywords(self)) \subseteq DOMAIN configuration

\* The order in which the blocks of a class's handlers stand, the same in
\* _queryConfiguration as in _setConfiguration.  (The DDC's data-port block,
\* which no class wires, stands first in the set handler and last in the
\* query handler; it is left out.)
WiringOrder ==
    << "tpwrCmd", "frqCmd", "attCmd", "agpCmd", "fifCmd", "tadjCmd",
       "cfgCmd", "snapshotLoadCmd", "snapshotTxCmd", "toneCmd", "sweepCmd" >>

WiringRank(name) == CHOOSE r \in DOMAIN WiringOrder : WiringOrder[r] = name

DdcConfigurationKeys == IF self.cls = "nbddc" THEN nbddc_cfgKeys ELSE ddc_cfgKeys

UnitsOf(key) ==
    CASE key = "TUNER_FREQUENCY" -> tuner_frqUnits
      [] key = "TX_FREQUENCY" -> tx_frqUnits
      [] key = "DDC_FREQUENCY_OFFSET" -> ddc_frqUnits
      [] OTHER -> I(1)

\* v, in application units, lies in the range and is a multiple of the
\* resolution (a power of ten) that ts declares.
ClampedAndQuantized(v, ts) ==
    /\ NumLE(ts.range[1], v) /\ NumLE(v, ts.range[2])
    /\ around(v, IntLog10Inv(ts.res)) = v

\* The class of the object that issued a wire log entry.
IssuerClass(e) == IF e.index = 0 THEN self.cls ELSE "cwToneGen"

\* C24 as stated: every numeric value carried by a set-mode invocation for a
\* key whose component type declares a range and a resolution has been
\* clamped into the range and quantized to the resolution, on the tuner, the
\* transmitter and the DDC and equally on the tone generator.
C24_SentValuesClampedAndQuantized ==
    (last.op = "set") =>
        \A i \in DOMAIN last.log :
            \A k \in DOMAIN last.log[i].args \cap DOMAIN TransformSpecOf(IssuerClass(last.log[i])) :
                IsNum(last.log[i].args[k]) =>
                    ClampedAndQuantized(NumMul(last.log[i].args[k], UnitsOf(k)),
                                        TransformSpecOf(IssuerClass(last.log[i]))[k])

\* C25 as stated: a zero or negative resolution is detected before any
\* transport activity: on a component with such a resolution no
\* setConfiguration call performs a round-trip before the failure is raised.
C25_BadResolutionFailsBeforeTransport ==
    (last.op = "set" /\ ~NumLT(I(0), frqRes(self)) /\ last.raised) => last.log = <<>>

\* C26 as stated: queryConfiguration writes to the mirrored map only for
\* successful outcomes: a call in which every invocation fails leaves every
\* entry of the component's mirrored map as it was before the call, on
\* every component type.
C26_FailedQueryLeavesMirror ==
    (last.op = "query" /\ \A i \in DOMAIN last.log : ~last.log[i].ok) =>
        configuration = last.pre

\* The mirrored map an invocation's issuer had before the last call, and has
\* now: the component's own, or that of the tone generator that issued it.
IssuerMirrorBefore(e) ==
    IF e.index = 0 THEN last.pre ELSE last.preTone[e.index].configuration

IssuerMirrorNow(e) ==
    IF e.index = 0 THEN configuration ELSE toneGenDict[e.index].configuration

\* The keys covered by the wiring an invocation belongs to.
CoveredKeys(e) ==
    UNION { w.keys : w \in { x \in Wirings(IF e.index = 0 THEN self ELSE cwToneGen_self) :
                                x.name = e.name } }

\* C27: a set-mode invocation that fails leaves every mirrored entry for the
\* keys its wiring covers at the value held before the call (absent if it
\* was absent); the mirrored map takes no value from a failed wiring.
C27_FailedSetLeavesCoveredKeys ==
    (last.op = "set") =>
        \A i \in FailedInvocations : \A k \in CoveredKeys(last.log[i]) :
            Get(IssuerMirrorNow(last.log[i]), k, Raised)
                = Get(IssuerMirrorBefore(last.log[i]), k, Raised)

\* A set whose failed invocation carried, for a key its wiring covers, a
\* value other than the one mirrored before the call.
C27_Witness ==
    /\ last.op = "set"
    /\ \E i \in FailedInvocations : \E k \in CoveredKeys(last.log[i]) :
          /\ k \in DOMAIN IssuerMirrorBefore(last.log[i])
          /\ k \in DOMAIN last.log[i].args
          /\ last.log[i].args[k] # IssuerMirrorBefore(last.log[i])[k]
          /\ IssuerMirrorNow(last.log[i])[k] = IssuerMirrorBefore(last.log[i])[k]

\* C28 as stated: on a DUC whose snapshot transmit command is wired,
\* setConfiguration with any subset of the snapshot keys (file name, start
\* sample, samples, single playback) returns a boolean without raising, also
\* when the request holds only some of start sample, samples and single
\* playback, or the three load keys without single playback.
C28_SnapshotSubsetDoesNotRaise ==
    (/\ self.cls = "duc" /\ "snapshotTxCmd" \in self.cmds
     /\ last.op = "set"
     /\ DOMAIN last.request \subseteq duc_loadKeys \cup duc_txKeys) => ~last.raised

(***************************************************************************)
(* Properties of the group components.                                     *)
(***************************************************************************)
\* The members the last request asks for: null is none, an integer is that
\* one member, a list is its items.
RequestedMembers ==
    IF last.request[group_keys(self).members] = None THEN {}
    ELSE IF IsNum(last.request[group_keys(self).members])
         THEN {last.request[group_keys(self).members]}
         ELSE { last.request[group_keys(self).members].items[j] :
                j \in DOMAIN last.request[group_keys(self).members].items }

\* The potential members of the group, in ascending order.
PotentialMembers ==
    [n \in 1..self.numGroupMembers |-> I(self.groupMemberIndexBase + n - 1)]

\* The indices a mirrored members list holds.
MembersOf(conf) ==
    { conf[group_keys(self).members].items[j] :
      j \in DOMAIN conf[group_keys(self).members].items }

\* C29: a group's setConfiguration with a members key issues exactly
\* numGroupMembers member-assignment invocations, one per potential member
\* in ascending order from groupMemberIndexBase, each with enable = 1 if that
\* member is among the requested ones and 0 otherwise; the mirrored members
\* entry becomes the requested members if every one of them succeeded, and
\* is otherwise as it was (absent if it was absent).
C29_MemberAssignments ==
    (last.op = "set" /\ group_keys(self).members \in DOMAIN last.request) =>
        /\ Issued("groupMemberCmd") = self.numGroupMembers
        /\ \A n \in 1..self.numGroupMembers :
              /\ last.log[n].name = "groupMemberCmd" /\ ~last.log[n].query
              /\ last.log[n].args[group_keys(self).assigned] = PotentialMembers[n]
              /\ last.log[n].args["ENABLE"] =
                    IF PotentialMembers[n] \in RequestedMembers THEN I(1) ELSE I(0)
        /\ IF \A n \in 1..self.numGroupMembers : last.log[n].ok
           THEN /\ group_keys(self).members \in DOMAIN configuration
                /\ MembersOf(configuration) = RequestedMembers
           ELSE Get(configuration, group_keys(self).members, Raised)
                    = Get(last.pre, group_keys(self).members, Raised)

\* A group whose mirrored members list came from an earlier call was asked
\* for other members: one assignment per potential member went out, one of
\* them failed, and the mirrored list is the earlier one.
C29_Witness ==
    /\ last.op = "set" /\ group_keys(self).members \in DOMAIN last.request
    /\ group_keys(self).members \in DOMAIN last.pre
    /\ MembersOf(last.pre) # RequestedMembers /\ MembersOf(last.pre) # {}
    /\ Issued("groupMemberCmd") = self.numGroupMembers
    /\ \E n \in 1..self.numGroupMembers : ~last.log[n].ok
    /\ \E n \in 1..self.numGroupMembers : last.log[n].args["ENABLE"] = I(1)
    /\ configuration[group_keys(self).members] = last.pre[group_keys(self).members]

\* C30 as stated: after any sequence of setConfiguration and
\* queryConfiguration calls on a group, every index in the mirrored members
\* list lies in groupMemberIndexBase .. groupMemberIndexBase +
\* numGroupMembers - 1.
C30_MirroredMembersInRange ==
    (group_keys(self).members \in DOMAIN configuration) =>
        MembersOf(configuration) \subseteq { PotentialMembers[n] : n \in 1..self.numGroupMembers }

(***************************************************************************)
(* Properties of particular components.                                    *)
(***************************************************************************)
\* The keys under which a tuner mirrors its attenuation.
AttenuationKeys == {"TUNER_ATTENUATION", "TUNER_RF_ATTENUATION"}

\* C31: on a tuner, in every state reached by queryConfiguration and
\* setConfiguration calls, the mirrored attenuation and RF-attenuation
\* entries are both absent or equal; a request with both keys sends one
\* attenuation invocation, with the value the RF-attenuation key gives.
C31_AttenuationKeysAgree ==
    (self.cls = "tuner") =>
        /\ \/ DOMAIN configuration \cap AttenuationKeys = {}
           \/ /\ AttenuationKeys \subseteq DOMAIN configuration
              /\ configuration["TUNER_ATTENUATION"] = configuration["TUNER_RF_ATTENUATION"]
        /\ (last.op = "set" /\ AttenuationKeys \subseteq DOMAIN last.request) =>
              /\ Issued("attCmd") = 1
              /\ \A i \in DOMAIN last.log :
                    (last.log[i].name = "attCmd") =>
                        last.log[i].args["TUNER_ATTENUATION"] =
                            adjustAttenuation(last.request["TUNER_RF_ATTENUATION"],
                                              tuner_attRange, tuner_attRes, I(1))

\* A tuner was asked for an attenuation and another RF attenuation, the one
\* invocation succeeded and both mirrored entries hold the RF attenuation.
C31_Witness ==
    /\ self.cls = "tuner" /\ last.op = "set" /\ last.ret
    /\ AttenuationKeys \subseteq DOMAIN last.request
    /\ last.request["TUNER_ATTENUATION"] # last.request["TUNER_RF_ATTENUATION"]
    /\ Issued("attCmd") = 1
    /\ AttenuationKeys \subseteq DOMAIN configuration
    /\ configuration["TUNER_ATTENUATION"] = last.request["TUNER_RF_ATTENUATION"]
    /\ configuration["TUNER_RF_ATTENUATION"] = last.request["TUNER_RF_ATTENUATION"]

\* The invocations of the last call that tone generator tg issued for the
\* query wiring name.
ToneGenQueries(tg, name) ==
    { i \in DOMAIN last.log :
        last.log[i].index = tg /\ last.log[i].name = name /\ last.log[i].query }

\* The transmitter's own power, frequency and attenuation queries of the
\* last call.
OwnQueries == { j \in DOMAIN last.log : last.log[j].index = 0 /\ last.log[j].query }

\* C32: one addTransport call with query-on-attach on a transmitter issues
\* each tone generator's query wirings exactly twice: once during the tone
\* generator's own attachment, before the transmitter's transport is set,
\* and once from the transmitter's own queryConfiguration, after the
\* transmitter's power, frequency and attenuation queries.
C32_ToneGensQueriedTwiceOnAttach ==
    (last.op = "attach" /\ self.cls = "tx" /\ last.request.queryConfig) =>
        /\ { last.log[j].name : j \in OwnQueries } = {"tpwrCmd", "frqCmd", "attCmd"}
        /\ \A tg \in 1..self.numToneGen : \A w \in Wirings(cwToneGen_self) :
              /\ Cardinality(ToneGenQueries(tg, w.name)) = 2
              /\ Cardinality(ToneGenQueries(tg, w.name) \cap BeforeOwnAttachment) = 1
              /\ \E i \in ToneGenQueries(tg, w.name) : \A j \in OwnQueries : j < i

\* A transmitter with three tone generators was attached with
\* query-on-attach: the third tone generator's tone query went out before
\* the transmitter was attached and again after the attenuation query.
C32_Witness ==
    /\ last.op = "attach" /\ self.cls = "tx" /\ self.numToneGen = 3
    /\ last.request.queryConfig
    /\ \E i, k \in ToneGenQueries(3, "toneCmd"), j \in OwnQueries :
          /\ i \in BeforeOwnAttachment /\ i < j /\ j < k
          /\ last.log[j].name = "attCmd"

\* The tone generators whose mirrored values the last call changed, all of
\* their invocations having succeeded.
ChangedToneGens ==
    { tg \in 1..self.numToneGen :
        /\ TgKey(tg) \in DOMAIN last.request["CONFIG_CW"]
        /\ toneGenDict[tg].configuration # last.preTone[tg].configuration
        /\ \A i \in DOMAIN last.log : last.log[i].index = tg => last.log[i].ok }

\* C33 as stated: after a transmitter setConfiguration that successfully
\* changes a tone generator's values through the nested tone-generator key,
\* the transmitter's mirrored nested map for that generator equals the tone
\* generator's own mirrored map, with no queryConfiguration in between.
C33_NestedMapFollowsToneGen ==
    (last.op = "set" /\ self.cls = "tx" /\ "CONFIG_CW" \in DOMAIN last.request) =>
        \A tg \in ChangedToneGens :
            /\ "CONFIG_CW" \in DOMAIN configuration
            /\ TgKey(tg) \in DOMAIN configuration["CONFIG_CW"]
            /\ configuration["CONFIG_CW"][TgKey(tg)] = toneGenDict[tg].configuration

\* The value enable() and disable() ask for.
SwitchValue == IF last.op = "enable" THEN I(1) ELSE I(0)

\* C34: on a tuner, enable() and disable() each issue exactly one power
\* invocation carrying 1 or 0 and return whether it succeeded; on success the
\* mirrored enable entry takes the command's value and every other mirrored
\* entry is as it was; on failure the mirrored map is as it was.
C34_TunerEnableDisable ==
    (self.cls = "tuner" /\ last.op \in {"enable", "disable"}) =>
        /\ Len(last.log) = 1
        /\ last.log[1].name = "tpwrCmd" /\ ~last.log[1].query
        /\ last.log[1].args = [ENABLE |-> SwitchValue]
        /\ ~last.raised /\ last.ret = last.log[1].ok
        /\ IF last.log[1].ok
           THEN /\ DOMAIN configuration = DOMAIN last.pre \cup {"ENABLE"}
                /\ configuration["ENABLE"] = SwitchValue
                /\ \A k \in DOMAIN last.pre \ {"ENABLE"} : configuration[k] = last.pre[k]
           ELSE configuration = last.pre

\* A tuner whose mirrored map held a frequency and enable = 1 was disabled:
\* the power invocation succeeded and the mirrored enable entry is 0.
C34_Witness ==
    /\ self.cls = "tuner" /\ last.op = "disable" /\ last.ret
    /\ "TUNER_FREQUENCY" \in DOMAIN last.pre
    /\ "ENABLE" \in DOMAIN last.pre /\ last.pre["ENABLE"] = I(1)
    /\ configuration["ENABLE"] = I(0)

\* No wiring of the component covers the enable key.
NoEnableWiring == \A w \in Wirings(self) : "ENABLE" \notin w.keys

\* C35: on a component with no wiring for the enable key (a tone generator,
\* a DUC, a tuner whose power command is None), enable() and disable() return
\* true, issue no invocation, add no diagnostic entry and change no mirrored
\* entry.
C35_UnwiredEnableIsNoOp ==
    [][(NoEnableWiring /\ last.op = "none" /\ last'.op \in {"enable", "disable"}) =>
          /\ last'.ret /\ ~last'.raised
          /\ last'.log = <<>>
          /\ cmdErrorInfo' = cmdErrorInfo
          /\ configuration' = configuration]_vars

\* A DUC with a mirrored map and a diagnostic list from an earlier call was
\* enabled: true came back, and nothing went out.
C35_Witness ==
    /\ self.cls = "duc" /\ last.op = "enable" /\ last.ret /\ last.log = <<>>
    /\ NoEnableWiring
    /\ configuration # EmptyDict /\ cmdErrorInfo # <<>>
    /\ configuration = last.pre

\* C36 as stated: a narrowband DDC that is not tunable issues no
\* frequency-offset invocation: neither queryConfiguration nor a
\* setConfiguration with the frequency-offset key sends the frequency
\* command, and its mirrored map never gains a frequency-offset entry.
C36_NonTunableSendsNoFrequency ==
    (self.cls = "nbddc" /\ ~tunable(self)) =>
        /\ \A i \in DOMAIN last.log : last.log[i].name # "frqCmd"
        /\ "DDC_FREQUENCY_OFFSET" \notin DOMAIN configuration

(***************************************************************************)
(* Properties of calls that are not serialized.                            *)
(***************************************************************************)
\* Both callers are back from setConfiguration, each with True.
BothSucceeded ==
    \A t \in Callers : race.t[t].pc = "done" /\ race.t[t].ret

\* The mirrored map and the radio hold the value each caller asked for.
BothValuesHeld ==
    \A t \in Callers : \A k \in DOMAIN race.t[t].request :
        /\ Get(configuration, k, Raised) = race.t[t].request[k]
        /\ Get(race.hw, k, Raised) = race.t[t].request[k]

\* A caller with a step left can take it, wherever the other caller is.
NoLockTaken ==
    \A t \in Callers :
        /\ race.t[t].pc = "read" => ENABLED RaceRead
        /\ race.t[t].pc = "send" => ENABLED RaceRoundTrip
        /\ race.t[t].pc = "write" => ENABLED RaceWrite

\* C37 as stated: when two setConfiguration calls on one DDC, each changing
\* another key of the shared configuration wiring, run without external
\* serialization, then under every interleaving of their steps the mirrored
\* map and the hardware hold both requested values once both calls have
\* returned success.
C37_BothValuesUnderEveryInterleaving ==
    (race.t # <<>> /\ BothSucceeded) => BothValuesHeld

\* C37, amended: the engine takes no lock, so the steps of the two calls
\* interleave freely; when the caller serializes the two calls (neither
\* enters while the other is inside), the mirrored map and the hardware hold
\* both requested values once both calls have returned success.
C37_BothValuesWhenSerialized ==
    (race.t # <<>>) =>
        /\ NoLockTaken
        /\ (BothSucceeded /\ ~race.overlap) => BothValuesHeld

\* The two calls ran one after the other, both returned success, and both
\* requested values are in the mirrored map and in the radio.
C37_Witness ==
    /\ race.t # <<>> /\ BothSucceeded /\ ~race.overlap
    /\ BothValuesHeld
    /\ \E t \in Callers : "DDC_RATE_INDEX" \in DOMAIN race.t[t].request
====
